---- MODULE Spec2Model ----
(***************************************************************************)
(* Model of the PICTOOL watermark batch processing.                        *)
(*                                                                         *)
(* Two programs run the same batch loop:                                   *)
(*   - the standalone application, picaddmark/watermark_app.py             *)
(*     (class WatermarkApp), and                                           *)
(*   - the suite, pic_tool_suite.py, hosting modules/watermark_tool.py     *)
(*     (class WatermarkTool) next to the GIF and PDF converters which      *)
(*     share its message queue.                                            *)
(* The variable sys says which of the two programs a behaviour is a run    *)
(* of; the fields of the other program keep their constructed values.      *)
(*                                                                         *)
(* The adaptive font size search is a pure function; it is checked under   *)
(* SpecSizer, whose initial states enumerate its inputs.  In the same way  *)
(* the position and the line breaking of the text are checked under        *)
(* SpecLayout and the choice of its colour under SpecColour, the opacity   *)
(* under SpecOpacity, the {exif_date} placeholder under SpecDynamic and    *)
(* the output paths under SpecOutput.  SpecAppFair is the standalone       *)
(* application with the scheduling of its thread and of its poll.          *)
(* SpecConfig is the ConfigManager under any order of calls, SpecSession   *)
(* the construction and closing of the suite around it.                    *)
(***************************************************************************)
EXTENDS Integers, Sequences, FiniteSets, TLC

(***************************************************************************)
(* Bounds of the model.                                                    *)
(***************************************************************************)
\* largest number of supported image files found in the selected folder
MaxImages == 2
\* largest number of watermark batch runs started in one behaviour
MaxRuns == 2
\* largest number of GIF generations started in one behaviour
MaxGifRuns == 1

Runs == 1..MaxRuns

\* error_str / error of the worker: None, or the text of the exception
NoError == "None"
SetupError == "OSError"

(***************************************************************************)
(* The folder listing: the k-th path of a list of n files.  The order of   *)
(* os.listdir is arbitrary; the names are chosen so that the position in   *)
(* the list and the file name differ.                                      *)
(***************************************************************************)
ImageFile(k, n) == n + 1 - k

VARIABLES
    sys,                \* "app" (WatermarkApp) or "suite" (PicToolSuite)
    folder_count,       \* number of supported images in the folder (environment)
    runs,               \* number of batch runs started so far
    worker,             \* run id -> state of the worker thread of that run
    \* ---------------- WatermarkApp ----------------
    selected_folder,    \* self.selected_folder is set
    process_button,     \* state of the start button
    select_button,      \* state of the folder button (and of the other inputs)
    stop_button,        \* state of the stop button
    stop_requested,     \* self.stop_requested
    processing_thread,  \* self.processing_thread: 0 is None, else the run id
    processing_queue,   \* self.processing_queue
    polls,              \* pending master.after(100, _check_queue) callbacks
    progress,           \* self.progress["value"]
    progress_label,     \* text of self.progress_label
    dialog,             \* the message box shown last
    reports,            \* run id -> the outcomes _handle_completion reported
                        \* for it, as <<label, dialog>> (history)
    \* ---------------- PicToolSuite / WatermarkTool ----------------
    image_files,        \* len(WatermarkTool.image_files)
    process_btn,        \* state of the tool's start button
    stop_btn,           \* state of the tool's stop button
    is_processing,      \* WatermarkTool.is_processing
    tool_stop_requested,\* WatermarkTool.stop_requested
    message_queue,      \* the message queue shared by the tools of the suite
    gif_generate_btn,   \* GifConverter.generate_btn
    gif_stop_btn,       \* GifConverter.stop_btn
    gif_is_processing,  \* GifConverter.is_processing: its thread is running
    gif_runs,           \* number of GIF generations started so far
    \* ---------------- pure functions ----------------
    args,               \* the function applied and its arguments
    locals,             \* the local variables of a function that runs a loop
    result              \* << >>, or <<v>> once the function has returned v

app_vars == <<selected_folder, process_button, select_button, stop_button,
              stop_requested, processing_thread, processing_queue, polls,
              progress, progress_label, dialog, reports>>

suite_vars == <<image_files, process_btn, stop_btn, is_processing,
                tool_stop_requested, message_queue, gif_generate_btn,
                gif_stop_btn, gif_is_processing, gif_runs>>

pure_vars == <<args, locals, result>>

vars == <<sys, folder_count, runs, worker, app_vars, suite_vars, pure_vars>>

(***************************************************************************)
(* A worker thread.  pc is its position in the thread function:            *)
(*   "none"   not created                                                  *)
(*   "setup"  started, before the output folder is created                 *)
(*   "check"  at the head of the for loop, before the stop check of item i *)
(*   "item"   processing item i (the inner try block)                      *)
(*   "final"  after the loop, before the final messages                    *)
(*   "done"   the thread function has returned                             *)
(* i counts the items passed; processed/skipped are the local counters.    *)
(* opened, failures, stop_during, setup_failed and events are history: the *)
(* files handed to the per-item processing, those of them whose processing *)
(* raised, whether a stop request set the flag while the thread was alive, *)
(* whether the setup step raised, and the messages the thread has put on   *)
(* the queue, in order.                                                    *)
(***************************************************************************)
Last(seq) == seq[Len(seq)]

NoWorker == [pc |-> "none", i |-> 0, total |-> 0, processed |-> 0,
             skipped |-> 0, opened |-> << >>, failures |-> << >>,
             stop_during |-> FALSE, setup_failed |-> FALSE, events |-> << >>]

NewWorker == [NoWorker EXCEPT !.pc = "setup"]

IsAlive(r) == r \in Runs /\ worker[r].pc \notin {"none", "done"}

NoteStop == [r \in Runs |->
               IF IsAlive(r) THEN [worker[r] EXCEPT !.stop_during = TRUE]
               ELSE worker[r]]

\* the state after construction of program s, with n images in the folder
Constructed(s, n) ==
    /\ sys = s
    /\ folder_count = n
    /\ runs = 0
    /\ worker = [r \in Runs |-> NoWorker]
    /\ selected_folder = FALSE
    /\ process_button = "disabled"
    /\ select_button = "normal"
    /\ stop_button = "disabled"
    /\ stop_requested = FALSE
    /\ processing_thread = 0
    /\ processing_queue = << >>
    /\ polls = 0
    /\ progress = 0
    /\ progress_label = "ready"
    /\ dialog = "none"
    /\ reports = [r \in Runs |-> << >>]
    /\ image_files = 0
    /\ process_btn = "normal"
    /\ stop_btn = "disabled"
    /\ is_processing = FALSE
    /\ tool_stop_requested = FALSE
    /\ message_queue = << >>
    /\ gif_generate_btn = "normal"
    /\ gif_stop_btn = "disabled"
    /\ gif_is_processing = FALSE
    /\ gif_runs = 0

NoArgs == [fn |-> "none"]
NoLocals == [pc |-> "none"]

Init ==
    /\ \E s \in {"app", "suite"}, n \in 0..MaxImages : Constructed(s, n)
    /\ args = NoArgs
    /\ locals = NoLocals
    /\ result = << >>

(***************************************************************************)
(* WatermarkApp: user actions                                              *)
(***************************************************************************)

\* select_folder: the directory dialog returns a folder or is cancelled
SelectFolder ==
    /\ sys = "app"
    /\ select_button = "normal"
    /\ \E folder \in BOOLEAN :
         IF folder
         THEN /\ selected_folder' = TRUE
              /\ process_button' = "normal"
         ELSE /\ process_button' = IF ~selected_folder THEN "disabled"
                                   ELSE process_button
              /\ UNCHANGED selected_folder
    /\ UNCHANGED <<suite_vars, pure_vars, sys, folder_count, runs, worker, select_button, stop_button,
                   stop_requested, processing_thread, processing_queue, polls,
                   progress, progress_label, dialog, reports>>

\* the controls enabled while the stop button is left as it is
EnableControlsLeavesStop ==
    /\ process_button' = "normal"
    /\ select_button' = "normal"
    /\ UNCHANGED stop_button

\* _enable_controls: every input enabled, the stop button disabled
EnableControls ==
    /\ process_button' = "normal"
    /\ select_button' = "normal"
    /\ stop_button' = "disabled"

\* start_processing_thread, the command of the start button
StartProcessingThread ==
    /\ sys = "app"
    /\ process_button = "normal"
    /\ runs < MaxRuns
    /\ IF processing_thread # 0 /\ IsAlive(processing_thread)
       THEN /\ dialog' = "busy"
            /\ UNCHANGED <<runs, worker, selected_folder, process_button,
                           select_button, stop_button, stop_requested,
                           processing_thread, processing_queue, polls,
                           progress, progress_label, reports>>
       ELSE IF ~selected_folder
       THEN /\ dialog' = "no_folder"
            /\ UNCHANGED <<runs, worker, selected_folder, process_button,
                           select_button, stop_button, stop_requested,
                           processing_thread, processing_queue, polls,
                           progress, progress_label, reports>>
       ELSE \E valid \in BOOLEAN :
              IF ~valid
              THEN \* _get_validated_params raised ValueError
                   /\ dialog' = "param_error"
                   /\ EnableControls
                   /\ UNCHANGED <<runs, worker, selected_folder,
                                  stop_requested, processing_thread,
                                  processing_queue, polls, progress,
                                  progress_label, reports>>
              ELSE /\ stop_requested' = FALSE
                   /\ process_button' = "disabled"
                   /\ select_button' = "disabled"
                   /\ stop_button' = "normal"
                   /\ progress' = 0
                   /\ progress_label' = "preparing"
                   /\ runs' = runs + 1
                   /\ worker' = [worker EXCEPT ![runs + 1] = NewWorker]
                   /\ processing_thread' = runs + 1
                   /\ polls' = polls + 1
                   /\ UNCHANGED <<selected_folder, processing_queue, dialog,
                                  reports>>
    /\ UNCHANGED <<suite_vars, pure_vars, sys, folder_count>>

\* request_stop_processing, the command of the stop button
RequestStopProcessing ==
    /\ sys = "app"
    /\ stop_button = "normal"
    /\ IF processing_thread # 0 /\ IsAlive(processing_thread)
       THEN /\ stop_requested' = TRUE
            /\ stop_button' = "disabled"
            /\ progress_label' = "stopping"
            /\ worker' = NoteStop
       ELSE UNCHANGED <<stop_requested, stop_button, progress_label, worker>>
    /\ UNCHANGED <<suite_vars, pure_vars, sys, folder_count, runs, selected_folder,
                   process_button, select_button, processing_thread,
                   processing_queue, polls, progress, dialog, reports>>

(***************************************************************************)
(* WatermarkApp: the worker thread, _threaded_add_watermarks               *)
(***************************************************************************)
\* the progress message with the loop index i in place of i + 1
ProgressMsgZeroBased(cur, total, file) ==
    [type |-> "progress", cur |-> cur - 1, total |-> total, file |-> file]

ProgressMsg(cur, total, file) ==
    [type |-> "progress", cur |-> cur, total |-> total, file |-> file]

ErrorMsg(file) == [type |-> "error", file |-> file]

\* the finished message without the error of the run
FinishedMsgDropsError(p, s, e) ==
    [type |-> "finished", processed |-> p, skipped |-> s, error |-> NoError]

FinishedMsg(p, s, e) ==
    [type |-> "finished", processed |-> p, skipped |-> s, error |-> e]

\* the worker record w after its thread moved to pc and put msgs on the queue
Step(w, pc, msgs) == [w EXCEPT !.pc = pc, !.events = @ \o msgs]

\* makedirs and listdir; an exception here is the fatal error of the run
AppSetup(r) ==
    /\ sys = "app"
    /\ worker[r].pc = "setup"
    /\ \E ok \in BOOLEAN :
         LET w == worker[r]
             msgs == IF ~ok THEN <<FinishedMsg(0, 0, SetupError)>>
                     ELSE IF folder_count = 0
                     THEN <<FinishedMsg(0, 0, NoError)>>
                     ELSE << >>
         IN  /\ worker' = [worker EXCEPT ![r] =
                   IF ~ok
                   THEN Step([w EXCEPT !.setup_failed = TRUE], "done", msgs)
                   ELSE IF folder_count = 0
                   THEN Step(w, "done", msgs)
                   ELSE Step([w EXCEPT !.total = folder_count], "check", msgs)]
             /\ processing_queue' = processing_queue \o msgs
    /\ UNCHANGED <<suite_vars, pure_vars, sys, folder_count, runs, selected_folder,
                   process_button, select_button, stop_button, stop_requested,
                   processing_thread, polls, progress, progress_label, dialog,
                   reports>>

\* head of the for loop: end of list, stop check, progress message
AppCheck(r) ==
    /\ sys = "app"
    /\ worker[r].pc = "check"
    /\ LET w == worker[r]
           file == ImageFile(w.i + 1, w.total)
           stop == w.i = w.total \/ stop_requested
           msgs == IF stop THEN << >>
                   ELSE <<ProgressMsg(w.i + 1, w.total, file)>>
       IN  /\ worker' = [worker EXCEPT ![r] =
                 IF stop THEN Step(w, "final", msgs)
                 ELSE Step([w EXCEPT !.opened = Append(@, file)], "item", msgs)]
           /\ processing_queue' = processing_queue \o msgs
    /\ UNCHANGED <<suite_vars, pure_vars, sys, folder_count, runs, selected_folder,
                   process_button, select_button, stop_button, stop_requested,
                   processing_thread, polls, progress, progress_label, dialog,
                   reports>>

\* the counters when a failed item is counted as processed as well
CountItemFailureAlsoProcessed(w, ok) ==
    IF ok THEN [w EXCEPT !.i = @ + 1, !.processed = @ + 1]
    ELSE [w EXCEPT !.i = @ + 1, !.processed = @ + 1, !.skipped = @ + 1]

\* the counters after the inner try block of one item
CountItem(w, ok) ==
    IF ok THEN [w EXCEPT !.i = @ + 1, !.processed = @ + 1]
    ELSE [w EXCEPT !.i = @ + 1, !.skipped = @ + 1]

\* the inner try block: process_single_image returns or raises
AppItem(r) ==
    /\ sys = "app"
    /\ worker[r].pc = "item"
    /\ \E ok \in BOOLEAN :
         LET w == worker[r]
             msgs == IF ok THEN << >>
                     ELSE <<ErrorMsg(ImageFile(w.i + 1, w.total))>>
         IN  /\ worker' = [worker EXCEPT ![r] =
                   Step([CountItem(w, ok) EXCEPT !.failures =
                            IF ok THEN @ ELSE Append(@, Last(w.opened))],
                        "check", msgs)]
             /\ processing_queue' = processing_queue \o msgs
    /\ UNCHANGED <<suite_vars, pure_vars, sys, folder_count, runs, selected_folder,
                   process_button, select_button, stop_button, stop_requested,
                   processing_thread, polls, progress, progress_label, dialog,
                   reports>>

\* after the loop: the final 'finished' message
AppFinal(r) ==
    /\ sys = "app"
    /\ worker[r].pc = "final"
    /\ LET w == worker[r]
           msgs == <<FinishedMsg(w.processed, w.skipped, NoError)>>
       IN  /\ worker' = [worker EXCEPT ![r] = Step(w, "done", msgs)]
           /\ processing_queue' = processing_queue \o msgs
    /\ UNCHANGED <<suite_vars, pure_vars, sys, folder_count, runs, selected_folder,
                   process_button, select_button, stop_button, stop_requested,
                   processing_thread, polls, progress, progress_label, dialog,
                   reports>>

(***************************************************************************)
(* WatermarkApp: the queue poll and the completion handler                 *)
(***************************************************************************)

\* the label set by _handle_completion
CompletionLabel(was_stopped, error_str) ==
    IF was_stopped THEN "stopped"
    ELSE IF error_str # NoError THEN "error_end"
    ELSE "completed"

\* the result dialog shown by _handle_completion
CompletionDialog(was_stopped, error_str) ==
    IF error_str # NoError THEN "failed"
    ELSE IF was_stopped THEN "stopped"
    ELSE "completed"

\* _check_queue, one firing of the after callback
CheckQueue ==
    /\ sys = "app"
    /\ polls > 0
    /\ IF processing_queue = << >>
       THEN UNCHANGED app_vars
       ELSE LET message == Head(processing_queue) IN
            /\ processing_queue' = Tail(processing_queue)
            /\ IF message.type = "progress"
               THEN /\ IF ~stop_requested
                       THEN /\ progress' = message.cur
                            /\ progress_label' = "processing"
                       ELSE UNCHANGED <<progress, progress_label>>
                    /\ UNCHANGED <<selected_folder, process_button,
                                   select_button, stop_button, stop_requested,
                                   processing_thread, polls, dialog,
                                   reports>>
               ELSE IF message.type = "error"
               THEN UNCHANGED <<selected_folder, process_button,
                                select_button, stop_button, stop_requested,
                                processing_thread, polls, progress,
                                progress_label, dialog, reports>>
               ELSE \* 'finished': _handle_completion, the poll chain ends
                    /\ stop_requested' = FALSE
                    /\ progress' = 0
                    /\ progress_label' =
                           CompletionLabel(stop_requested, message.error)
                    /\ EnableControls
                    /\ processing_thread' = 0
                    /\ dialog' = CompletionDialog(stop_requested, message.error)
                    /\ polls' = polls - 1
                    /\ reports' = [reports EXCEPT ![processing_thread] =
                           Append(@, <<CompletionLabel(stop_requested,
                                                       message.error),
                                       CompletionDialog(stop_requested,
                                                        message.error)>>)]
                    /\ UNCHANGED selected_folder
    /\ UNCHANGED <<suite_vars, pure_vars, sys, folder_count, runs, worker>>

(***************************************************************************)
(* PicToolSuite / WatermarkTool: user actions                              *)
(***************************************************************************)
StatusMsg(kind) == [type |-> "status", kind |-> kind]

\* "处理图片 i+1/total: filename"
ItemStatusMsg(cur, total, file) ==
    [type |-> "status", kind |-> "item", cur |-> cur, total |-> total,
     file |-> file]

\* the closing status without the count of the failures
DoneStatusMsgNoFailures(p, e) ==
    [type |-> "status", kind |-> "done", processed |-> p, skipped |-> 0]

\* "处理完成 - 成功: processed_count, 失败: error_count"
DoneStatusMsg(p, e) ==
    [type |-> "status", kind |-> "done", processed |-> p, skipped |-> e]

\* progress = (i + 1) / total * 100, kept as the fraction num / den
PercentMsg(cur, total) ==
    [type |-> "progress", num |-> cur * 100, den |-> total]

InfoMsg == [type |-> "info"]

\* "批量处理失败: ..."
FatalMsg == [type |-> "error", fatal |-> TRUE]

EnableControlsMsg == [type |-> "enable_controls", data |-> TRUE]

\* WatermarkTool.select_folder and load_images; the model loads the folder once
ToolSelectFolder ==
    /\ sys = "suite"
    /\ image_files = 0
    /\ folder_count > 0
    /\ image_files' = folder_count
    /\ message_queue' = Append(message_queue, StatusMsg("loaded"))
    /\ UNCHANGED <<app_vars, pure_vars, sys, folder_count, runs, worker, process_btn,
                   stop_btn, is_processing, tool_stop_requested,
                   gif_generate_btn, gif_stop_btn, gif_is_processing,
                   gif_runs>>

\* start_processing without the reset of stop_requested
StartProcessingKeepsStopFlag ==
    /\ sys = "suite"
    /\ process_btn = "normal"
    /\ runs < MaxRuns
    /\ \E text_ok \in BOOLEAN :
         IF image_files = 0 \/ ~text_ok
         THEN UNCHANGED <<runs, worker, process_btn, stop_btn, is_processing>>
         ELSE /\ process_btn' = "disabled"
              /\ stop_btn' = "normal"
              /\ is_processing' = TRUE
              /\ runs' = runs + 1
              /\ worker' = [worker EXCEPT ![runs + 1] = NewWorker]
    /\ UNCHANGED <<app_vars, pure_vars, sys, folder_count, image_files,
                   message_queue, tool_stop_requested, gif_generate_btn,
                   gif_stop_btn, gif_is_processing, gif_runs>>

\* WatermarkTool.start_processing, the command of the tool's start button;
\* without images or without text it shows a warning and returns
StartProcessing ==
    /\ sys = "suite"
    /\ process_btn = "normal"
    /\ runs < MaxRuns
    /\ \E text_ok \in BOOLEAN :
         IF image_files = 0 \/ ~text_ok
         THEN UNCHANGED <<runs, worker, process_btn, stop_btn, is_processing,
                          tool_stop_requested>>
         ELSE /\ process_btn' = "disabled"
              /\ stop_btn' = "normal"
              /\ is_processing' = TRUE
              /\ tool_stop_requested' = FALSE
              /\ runs' = runs + 1
              /\ worker' = [worker EXCEPT ![runs + 1] = NewWorker]
    /\ UNCHANGED <<app_vars, pure_vars, sys, folder_count, image_files, message_queue,
                   gif_generate_btn, gif_stop_btn, gif_is_processing,
                   gif_runs>>

\* WatermarkTool.stop_processing, the command of the tool's stop button.
\* A click that finds the flag already set would only put the status message
\* once more; the model leaves such clicks out to keep the queue bounded.
StopProcessing ==
    /\ sys = "suite"
    /\ stop_btn = "normal"
    /\ ~tool_stop_requested
    /\ tool_stop_requested' = TRUE
    /\ worker' = NoteStop
    /\ message_queue' = Append(message_queue, StatusMsg("stopping"))
    /\ UNCHANGED <<app_vars, pure_vars, sys, folder_count, runs, image_files,
                   process_btn, stop_btn, is_processing, gif_generate_btn,
                   gif_stop_btn, gif_is_processing, gif_runs>>

(***************************************************************************)
(* WatermarkTool: the worker thread, process_images_thread                 *)
(***************************************************************************)

\* create_output_folder (disk space check, makedirs), then the first status;
\* an exception runs the except and finally blocks
ToolSetup(r) ==
    /\ sys = "suite"
    /\ worker[r].pc = "setup"
    /\ \E ok \in BOOLEAN :
         LET w == worker[r]
             msgs == IF ~ok THEN <<FatalMsg, EnableControlsMsg>>
                     ELSE <<StatusMsg("begin")>>
         IN  /\ worker' = [worker EXCEPT ![r] =
                   IF ~ok
                   THEN Step([w EXCEPT !.setup_failed = TRUE], "done", msgs)
                   ELSE Step([w EXCEPT !.total = image_files], "check", msgs)]
             /\ is_processing' = IF ~ok THEN FALSE ELSE is_processing
             /\ message_queue' = message_queue \o msgs
    /\ UNCHANGED <<app_vars, pure_vars, sys, folder_count, runs, image_files,
                   process_btn, stop_btn, tool_stop_requested,
                   gif_generate_btn, gif_stop_btn, gif_is_processing,
                   gif_runs>>

\* head of the for loop: end of list, stop check, progress and status messages
ToolCheck(r) ==
    /\ sys = "suite"
    /\ worker[r].pc = "check"
    /\ LET w == worker[r]
           file == ImageFile(w.i + 1, w.total)
           stop == w.i = w.total \/ tool_stop_requested
           msgs == IF stop THEN << >>
                   ELSE <<PercentMsg(w.i + 1, w.total),
                          ItemStatusMsg(w.i + 1, w.total, file)>>
       IN  /\ worker' = [worker EXCEPT ![r] =
                 IF stop THEN Step(w, "final", msgs)
                 ELSE Step([w EXCEPT !.opened = Append(@, file)], "item", msgs)]
           /\ message_queue' = message_queue \o msgs
    /\ UNCHANGED <<app_vars, pure_vars, sys, folder_count, runs, image_files,
                   process_btn, stop_btn, is_processing, tool_stop_requested,
                   gif_generate_btn, gif_stop_btn, gif_is_processing,
                   gif_runs>>

\* the inner try block: open, watermark and save, or an exception that is
\* logged only
ToolItem(r) ==
    /\ sys = "suite"
    /\ worker[r].pc = "item"
    /\ \E ok \in BOOLEAN :
         worker' = [worker EXCEPT ![r] =
             Step([CountItem(worker[r], ok) EXCEPT !.failures =
                      IF ok THEN @ ELSE Append(@, Last(worker[r].opened))],
                  "check", << >>)]
    /\ UNCHANGED <<app_vars, suite_vars, pure_vars, sys, folder_count, runs>>

\* after the loop: the closing status (and info), then the finally block
ToolFinal(r) ==
    /\ sys = "suite"
    /\ worker[r].pc = "final"
    /\ LET w == worker[r]
           msgs == (IF tool_stop_requested
                    THEN <<StatusMsg("cancelled")>>
                    ELSE <<DoneStatusMsg(w.processed, w.skipped)>>
                         \o (IF w.processed > 0 THEN <<InfoMsg>> ELSE << >>))
                   \o <<EnableControlsMsg>>
       IN  /\ worker' = [worker EXCEPT ![r] = Step(w, "done", msgs)]
           /\ message_queue' = message_queue \o msgs
    /\ is_processing' = FALSE
    /\ UNCHANGED <<app_vars, pure_vars, sys, folder_count, runs, image_files,
                   process_btn, stop_btn, tool_stop_requested,
                   gif_generate_btn, gif_stop_btn, gif_is_processing,
                   gif_runs>>

(***************************************************************************)
(* GifConverter: start of a generation and the finally block of its        *)
(* thread.  The PDF converter has the same two pieces.  The status and     *)
(* progress messages of the generation itself are left out.                *)
(***************************************************************************)
GifStartGeneration ==
    /\ sys = "suite"
    /\ gif_generate_btn = "normal"
    /\ gif_runs < MaxGifRuns
    /\ gif_generate_btn' = "disabled"
    /\ gif_stop_btn' = "normal"
    /\ gif_is_processing' = TRUE
    /\ gif_runs' = gif_runs + 1
    /\ UNCHANGED <<app_vars, pure_vars, sys, folder_count, runs, worker, image_files,
                   process_btn, stop_btn, is_processing, tool_stop_requested,
                   message_queue>>

GifThreadFinally ==
    /\ sys = "suite"
    /\ gif_is_processing
    /\ gif_is_processing' = FALSE
    /\ message_queue' = Append(message_queue, EnableControlsMsg)
    /\ UNCHANGED <<app_vars, pure_vars, sys, folder_count, runs, worker, image_files,
                   process_btn, stop_btn, is_processing, tool_stop_requested,
                   gif_generate_btn, gif_stop_btn, gif_runs>>

(***************************************************************************)
(* PicToolSuite: the queue poll.  The status bar, the progress bar and the *)
(* message boxes that handle_message writes are read by no operation and   *)
(* are not part of the state; the buttons are.                             *)
(***************************************************************************)
SuiteUI == [process_btn |-> process_btn, stop_btn |-> stop_btn,
            gif_generate_btn |-> gif_generate_btn,
            gif_stop_btn |-> gif_stop_btn]

\* WatermarkTool.enable_controls(enable)
ToolEnableControls(ui, enable) ==
    IF enable
    THEN [ui EXCEPT !.process_btn = "normal", !.stop_btn = "disabled"]
    ELSE [ui EXCEPT !.process_btn = "disabled", !.stop_btn = "normal"]

\* GifConverter.enable_controls(enable)
GifEnableControls(ui, enable) ==
    IF enable
    THEN [ui EXCEPT !.gif_generate_btn = "normal", !.gif_stop_btn = "disabled"]
    ELSE [ui EXCEPT !.gif_generate_btn = "disabled", !.gif_stop_btn = "normal"]

\* PicToolSuite.handle_message: enable_controls goes to every tool
HandleMessage(ui, message) ==
    IF message.type = "enable_controls"
    THEN GifEnableControls(ToolEnableControls(ui, message.data), message.data)
    ELSE ui

RECURSIVE Drain(_, _)
Drain(ui, q) ==
    IF q = << >> THEN ui ELSE Drain(HandleMessage(ui, Head(q)), Tail(q))

\* check_message_queue: handles every message in the queue, then reschedules
CheckMessageQueue ==
    /\ sys = "suite"
    /\ message_queue # << >>
    /\ LET ui == Drain(SuiteUI, message_queue) IN
         /\ process_btn' = ui.process_btn
         /\ stop_btn' = ui.stop_btn
         /\ gif_generate_btn' = ui.gif_generate_btn
         /\ gif_stop_btn' = ui.gif_stop_btn
    /\ message_queue' = << >>
    /\ UNCHANGED <<app_vars, pure_vars, sys, folder_count, runs, worker, image_files,
                   is_processing, tool_stop_requested, gif_is_processing,
                   gif_runs>>

(***************************************************************************)
(* Adaptive font size: calculate_adaptive_font_size                        *)
(*                                                                         *)
(* A text is a sequence of character classes, "cjk" (U+4E00..U+9FFF) or    *)
(* "latin" (any other character).  The font backend is outside the         *)
(* repository; GlyphWidth stands for the width textbbox reports for one    *)
(* character at a font size: the full size for a CJK glyph, half of it     *)
(* (rounded up) for any other glyph.                                       *)
(***************************************************************************)
Max(a, b) == IF a >= b THEN a ELSE b
Min(a, b) == IF a <= b THEN a ELSE b

\* largest length of a watermark text
MaxTextLen == 3

CharClasses == {"cjk", "latin"}

Texts == UNION {[1..k -> CharClasses] : k \in 0..MaxTextLen}

\* the image widths and heights tried
Dims == {1, 20, 33, 34, 40, 100, 700, 1000, 4000, 4026, 4027, 5000}

GlyphWidth(class, size) == IF class = "cjk" THEN size ELSE (size + 1) \div 2

\* calculate_text_size(text, inf, ..., calculate_only=True)[0]: the sum of
\* the widths of the characters
RECURSIVE SingleLineWidth(_, _)
SingleLineWidth(text, size) ==
    IF text = << >> THEN 0
    ELSE GlyphWidth(Head(text), size) + SingleLineWidth(Tail(text), size)

\* current_width <= target_width, with target_width = img_w * 0.80
FitsTarget(width, img_w) == 10 * width <= 8 * img_w

\* max_iterations of the search loop
MaxIterations == 10

\* the for loop of the binary search: the value of best_size when it ends
RECURSIVE BinarySearch(_, _, _, _, _, _)
BinarySearch(text, img_w, low, high, best, iter) ==
    IF iter = MaxIterations \/ low > high THEN best
    ELSE LET mid == (low + high) \div 2 IN
         IF mid <= 0 THEN best
         ELSE IF FitsTarget(SingleLineWidth(text, mid), img_w)
         THEN BinarySearch(text, img_w, mid + 1, high, mid, iter + 1)
         ELSE BinarySearch(text, img_w, low, mid - 1, best, iter + 1)

\* min_font_size without the floor of 10
AppMinFontSizeNoFloor(img_w, img_h) == (Min(img_w, img_h) * 15) \div 1000

\* WatermarkApp: min_font_size = max(10, int(min(img_w, img_h) * 0.015))
AppMinFontSize(img_w, img_h) == Max(10, (Min(img_w, img_h) * 15) \div 1000)

\* WatermarkApp: max_font_size = max(min_font_size + 1, int(min(w, h) * 0.30))
AppMaxFontSize(img_w, img_h) ==
    Max(AppMinFontSize(img_w, img_h) + 1, (Min(img_w, img_h) * 30) \div 100)

\* WatermarkApp.calculate_adaptive_font_size
AppAdaptiveFontSize(text, base_font_size, img_w, img_h) ==
    IF text = << >> THEN base_font_size
    ELSE LET lo == AppMinFontSize(img_w, img_h)
             hi == AppMaxFontSize(img_w, img_h)
             best == BinarySearch(text, img_w, lo, hi, lo, 0)
         IN  Max(lo, Min(best, hi))

\* WatermarkTool: min_size = max(10, int(min(img_w, img_h) * 0.02))
ToolMinFontSize(img_w, img_h) == Max(10, (Min(img_w, img_h) * 2) \div 100)

\* WatermarkTool: max_size = int(min(img_w, img_h) * 0.3)
ToolMaxFontSize(img_w, img_h) == (Min(img_w, img_h) * 3) \div 10

\* WatermarkTool.calculate_adaptive_font_size
ToolAdaptiveFontSize(text, img_w, img_h) ==
    LET lo == ToolMinFontSize(img_w, img_h)
        hi == ToolMaxFontSize(img_w, img_h)
        best == BinarySearch(text, img_w, lo, hi, lo, 0)
    IN  Max(lo, Min(best, hi))

\* the default of the font size entry
BaseFontSize == 40

SizerArgs(impl, text, img_w, img_h) ==
    [fn |-> "calculate_adaptive_font_size", impl |-> impl, text |-> text,
     base_font_size |-> BaseFontSize, img_w |-> img_w, img_h |-> img_h]

InitSizer ==
    /\ Constructed("none", 0)
    /\ \E impl \in {"app", "tool"}, text \in Texts, w \in Dims, h \in Dims :
         args = SizerArgs(impl, text, w, h)
    /\ locals = NoLocals
    /\ result = << >>

AppCalculateAdaptiveFontSize ==
    /\ args.fn = "calculate_adaptive_font_size"
    /\ args.impl = "app"
    /\ result = << >>
    /\ result' = <<AppAdaptiveFontSize(args.text, args.base_font_size,
                                       args.img_w, args.img_h)>>
    /\ UNCHANGED <<sys, folder_count, runs, worker, app_vars, suite_vars, args,
                   locals>>

ToolCalculateAdaptiveFontSize ==
    /\ args.fn = "calculate_adaptive_font_size"
    /\ args.impl = "tool"
    /\ result = << >>
    /\ result' = <<ToolAdaptiveFontSize(args.text, args.img_w, args.img_h)>>
    /\ UNCHANGED <<sys, folder_count, runs, worker, app_vars, suite_vars, args,
                   locals>>

NextSizer ==
    \/ AppCalculateAdaptiveFontSize
    \/ ToolCalculateAdaptiveFontSize

SpecSizer == InitSizer /\ [][NextSizer]_vars

(***************************************************************************)
(* Watermark position: calculate_position                                  *)
(*                                                                         *)
(* The anchors are the values of the position combobox:                    *)
(*   "TopLeft" 左上角, "TopRight" 右上角, "BottomLeft" 左下角,             *)
(*   "BottomRight" 右下角, "Center" 中心.                                  *)
(***************************************************************************)
Anchors == {"TopLeft", "TopRight", "BottomLeft", "BottomRight", "Center"}

\* margin = 10
Margin == 10

\* the chain with the right-hand anchors placed without the margin
AnchorPositionNoRightMargin(position, img_w, img_h, text_w, text_h) ==
    CASE position = "TopLeft" -> <<Margin, Margin>>
      [] position = "TopRight" -> <<img_w - text_w, Margin>>
      [] position = "BottomLeft" -> <<Margin, img_h - text_h - Margin>>
      [] position = "BottomRight" ->
            <<img_w - text_w, img_h - text_h - Margin>>
      [] position = "Center" ->
            <<(img_w - text_w) \div 2, (img_h - text_h) \div 2>>
      [] OTHER -> <<Margin, Margin>>

\* the if / elif chain on position, shared by both implementations
AnchorPosition(position, img_w, img_h, text_w, text_h) ==
    CASE position = "TopLeft" -> <<Margin, Margin>>
      [] position = "TopRight" -> <<img_w - text_w - Margin, Margin>>
      [] position = "BottomLeft" -> <<Margin, img_h - text_h - Margin>>
      [] position = "BottomRight" ->
            <<img_w - text_w - Margin, img_h - text_h - Margin>>
      [] position = "Center" ->
            <<(img_w - text_w) \div 2, (img_h - text_h) \div 2>>
      [] OTHER -> <<Margin, Margin>>

\* WatermarkApp.calculate_position: the anchor position, then
\* final = max(0, min(pos, img - text)) on both axes
AppPosition(position, img_w, img_h, text_w, text_h) ==
    LET pos == AnchorPosition(position, img_w, img_h, text_w, text_h)
    IN  <<Max(0, Min(pos[1], img_w - text_w)),
          Max(0, Min(pos[2], img_h - text_h))>>

\* WatermarkTool.calculate_position: the anchor position as it is
ToolPosition(position, img_w, img_h, text_w, text_h) ==
    AnchorPosition(position, img_w, img_h, text_w, text_h)

\* the image widths and heights, and the text widths and heights, tried
PositionImageDims == {1, 15, 30, 100}
PositionTextDims == {0, 5, 12, 25, 80, 100, 120}

PositionArgs(impl, position, img_w, img_h, text_w, text_h) ==
    [fn |-> "calculate_position", impl |-> impl, position |-> position,
     img_w |-> img_w, img_h |-> img_h, text_w |-> text_w, text_h |-> text_h]

AppCalculatePosition ==
    /\ args.fn = "calculate_position"
    /\ args.impl = "app"
    /\ result = << >>
    /\ result' = <<AppPosition(args.position, args.img_w, args.img_h,
                               args.text_w, args.text_h)>>
    /\ UNCHANGED <<sys, folder_count, runs, worker, app_vars, suite_vars, args,
                   locals>>

ToolCalculatePosition ==
    /\ args.fn = "calculate_position"
    /\ args.impl = "tool"
    /\ result = << >>
    /\ result' = <<ToolPosition(args.position, args.img_w, args.img_h,
                                args.text_w, args.text_h)>>
    /\ UNCHANGED <<sys, folder_count, runs, worker, app_vars, suite_vars, args,
                   locals>>

(***************************************************************************)
(* Line breaking: WatermarkApp.draw_watermark                              *)
(*                                                                         *)
(* A text is a sequence of characters, each a CJK character, another       *)
(* non-space character or a space.  The metrics of a character come from   *)
(* the font backend: GlyphWidth and GlyphHeight stand for them.  A run is  *)
(* one call of draw.text: the character drawn, its position and metrics;   *)
(* its field char is history, <<w, k>> for the k-th character of the word  *)
(* of index w and <<w, 0>> for the space inserted before that word.        *)
(***************************************************************************)
\* largest length of a text that is drawn
MaxDrawLen == 4

DrawChars == {"cjk", "latin", " "}

DrawTexts == UNION {[1..k -> DrawChars] : k \in 0..MaxDrawLen}

GlyphHeight(class, size) ==
    IF class = "cjk" THEN size ELSE (3 * size + 3) \div 4

\* space_width: font.getlength(' ')
SpaceWidth(size) == GlyphWidth(" ", size)

\* text.split(' '), word being the word collected so far
RECURSIVE Split(_, _)
Split(text, word) ==
    IF text = << >> THEN <<word>>
    ELSE IF Head(text) = " " THEN <<word>> \o Split(Tail(text), << >>)
    ELSE Split(Tail(text), Append(word, Head(text)))

Words(text) == Split(text, << >>)

\* an entry of word_chars_metrics or of line_buffer
CharMetric(char, size, id) ==
    [text |-> char, width |-> GlyphWidth(char, size),
     height |-> GlyphHeight(char, size), char |-> id]

\* word_chars_metrics of the word of index w
WordCharsMetrics(word, size, w) ==
    [k \in 1..Len(word) |-> CharMetric(word[k], size, <<w, k>>)]

\* the entry appended for the space between two words
SpaceMetric(size, w) ==
    [text |-> " ", width |-> SpaceWidth(size),
     height |-> GlyphHeight(" ", size), char |-> <<w, 0>>]

RECURSIVE SumWidth(_)
SumWidth(items) ==
    IF items = << >> THEN 0 ELSE Head(items).width + SumWidth(Tail(items))

RECURSIVE MaxHeight(_)
MaxHeight(items) ==
    IF items = << >> THEN 0
    ELSE Max(Head(items).height, MaxHeight(Tail(items)))

\* draw.text((int(x), int(y)), item['text'], ...)
DrawText(item, x, y) ==
    [text |-> item.text, x |-> x, y |-> y, width |-> item.width,
     height |-> item.height, char |-> item.char]

\* flush_line_buffer: the calls of draw.text it makes
RECURSIVE FlushLineBuffer(_, _, _)
FlushLineBuffer(current_x, current_y, buffer) ==
    IF buffer = << >> THEN << >>
    ELSE <<DrawText(Head(buffer), current_x, current_y)>>
         \o FlushLineBuffer(current_x + Head(buffer).width, current_y,
                            Tail(buffer))

\* the locals of draw_watermark on entry to the word loop; visits and
\* forced_lines are history: how often the loop looked at each word, and
\* the number of characters on each line of the forced breaks
DrawLocals(text, x_start, y_start, max_width_constraint, size) ==
    [pc |-> "loop", words |-> Words(text), x_start |-> x_start,
     max_width_constraint |-> max_width_constraint, size |-> size,
     y |-> y_start, word_index |-> 0, line_buffer |-> << >>,
     current_line_width |-> 0, current_line_max_h |-> 0, runs |-> << >>,
     visits |-> [w \in 1..Len(Words(text)) |-> 0], forced_lines |-> << >>]

\* potential_line_width without the space between the words
PotentialLineWidthNoSpace(d) == d.current_line_width

\* potential_line_width: the line so far, plus a space unless the buffer is
\* empty
PotentialLineWidth(d) ==
    d.current_line_width
       + (IF d.line_buffer = << >> THEN 0 ELSE SpaceWidth(d.size))

\* the word fits: the space and the word go to the buffer
PlaceWord(d, metrics) ==
    LET first == d.line_buffer = << >>
        space == IF first THEN << >>
                 ELSE <<SpaceMetric(d.size, d.word_index)>>
    IN  [d EXCEPT !.line_buffer = @ \o space \o metrics,
                  !.current_line_width = @ + SumWidth(space)
                                           + SumWidth(metrics),
                  !.current_line_max_h = Max(@, MaxHeight(metrics)),
                  !.word_index = @ + 1]

\* the inner while loop of the forced break, from character k on; lines
\* counts the characters of each line
RECURSIVE ForcedBreak(_, _, _, _, _)
ForcedBreak(d, metrics, k, temp_x, temp_h) ==
    IF k > Len(metrics)
    THEN [d EXCEPT !.y = @ + temp_h]
    ELSE LET m == metrics[k]
             wrap == /\ temp_x > d.x_start
                     /\ temp_x + m.width > d.x_start + d.max_width_constraint
             y == IF wrap
                  THEN d.y + (IF temp_h > 0 THEN temp_h ELSE m.height)
                  ELSE d.y
             x == IF wrap THEN d.x_start ELSE temp_x
             h == IF wrap THEN 0 ELSE temp_h
             lines == IF wrap THEN Append(d.forced_lines, 0)
                      ELSE d.forced_lines
         IN  ForcedBreak([d EXCEPT !.y = y,
                                   !.runs = Append(@, DrawText(m, x, y)),
                                   !.forced_lines =
                                       [lines EXCEPT ![Len(lines)] = @ + 1]],
                         metrics, k + 1, x + m.width, Max(h, m.height))

\* the word alone is wider than the line: it is drawn character by character
ForcedBreakWord(d, metrics) ==
    LET after == ForcedBreak([d EXCEPT !.forced_lines = Append(@, 0)],
                             metrics, 1, d.x_start, 0)
    IN  [after EXCEPT !.current_line_width = 0,
                      !.current_line_max_h = 0,
                      !.line_buffer = << >>,
                      !.word_index = @ + 1]

\* the height of the first run of the line in place of the tallest
TotalLineHeightOfFirst(buffer) == Head(buffer).height

\* total_line_height, the value flush_line_buffer returns
TotalLineHeight(buffer) == MaxHeight(buffer)

\* the flush of a full line that also moves on to the next word
FlushLineSkipsWord(d) ==
    [d EXCEPT !.runs = @ \o FlushLineBuffer(d.x_start, d.y, d.line_buffer),
              !.y = @ + TotalLineHeight(d.line_buffer),
              !.line_buffer = << >>,
              !.current_line_width = 0,
              !.current_line_max_h = 0,
              !.word_index = @ + 1]

\* the line is full: the buffer is drawn and the word is tried again
FlushLine(d) ==
    [d EXCEPT !.runs = @ \o FlushLineBuffer(d.x_start, d.y, d.line_buffer),
              !.y = @ + TotalLineHeight(d.line_buffer),
              !.line_buffer = << >>,
              !.current_line_width = 0,
              !.current_line_max_h = 0]

\* one iteration of the word loop
WordLoopBody(d) ==
    LET w == d.word_index
        metrics == WordCharsMetrics(d.words[w + 1], d.size, w)
        seen == [d EXCEPT !.visits[w + 1] = @ + 1]
    IN  IF PotentialLineWidth(d) + SumWidth(metrics)
              <= d.max_width_constraint
        THEN PlaceWord(seen, metrics)
        ELSE IF d.line_buffer = << >>
        THEN ForcedBreakWord(seen, metrics)
        ELSE FlushLine(seen)

\* the widths tried as max_width_constraint, the smallest below the width of
\* every character
Budgets == {3, 5, 10, 12, 20, 100}

\* the font sizes tried for the fonts handed to draw_watermark
DrawFontSizes == {10}

DrawArgs(text, x_start, y_start, max_width_constraint, size) ==
    [fn |-> "draw_watermark", text |-> text, x_start |-> x_start,
     y_start |-> y_start, max_width_constraint |-> max_width_constraint,
     size |-> size]

\* entry of draw_watermark: `if not text: return`, else the word loop starts
EnterDrawWatermark(text, x_start, y_start, max_width_constraint, size) ==
    IF text = << >>
    THEN /\ result' = << << >> >>
         /\ UNCHANGED locals
    ELSE /\ locals' = DrawLocals(text, x_start, y_start,
                                 max_width_constraint, size)
         /\ UNCHANGED result

DrawWatermark ==
    /\ args.fn = "draw_watermark"
    /\ locals = NoLocals
    /\ result = << >>
    /\ EnterDrawWatermark(args.text, args.x_start, args.y_start,
                          args.max_width_constraint, args.size)
    /\ UNCHANGED <<sys, folder_count, runs, worker, app_vars, suite_vars, args>>

\* while word_index < len(words)
WordLoop ==
    /\ locals.pc = "loop"
    /\ locals.word_index < Len(locals.words)
    /\ locals' = WordLoopBody(locals)
    /\ UNCHANGED <<sys, folder_count, runs, worker, app_vars, suite_vars, args,
                   result>>

\* after the loop: the last line is drawn if the buffer holds one
FinalFlush ==
    /\ locals.pc = "loop"
    /\ locals.word_index = Len(locals.words)
    /\ locals' = [locals EXCEPT
                     !.runs = @ \o FlushLineBuffer(locals.x_start, locals.y,
                                                   locals.line_buffer),
                     !.pc = "done"]
    /\ result' = <<locals'.runs>>
    /\ UNCHANGED <<sys, folder_count, runs, worker, app_vars, suite_vars, args>>

(***************************************************************************)
(* Layout of one image: the part of process_single_image that sizes,       *)
(* places and draws the text                                               *)
(***************************************************************************)
\* the image widths and heights tried
LayoutDims == {20, 60, 200}

SingleImageArgs(text, base_font_size, img_w, img_h, position, is_adaptive) ==
    [fn |-> "process_single_image", text |-> text,
     base_font_size |-> base_font_size, img_w |-> img_w, img_h |-> img_h,
     position |-> position, is_adaptive |-> is_adaptive]

\* final_font_size
FinalFontSize(a) ==
    IF a.is_adaptive
    THEN AppAdaptiveFontSize(a.text, a.base_font_size, a.img_w, a.img_h)
    ELSE a.base_font_size

\* calculate_text_size(text, inf, ..., calculate_only=True): the width of the
\* text on one line and the height of its tallest character
TextSizeEstimate(text, size) ==
    <<SingleLineWidth(text, size),
      MaxHeight([k \in 1..Len(text) |-> CharMetric(text[k], size, <<0, k>>)])>>

\* x_start, y_start
StartPosition(a) ==
    LET estimate == TextSizeEstimate(a.text, FinalFontSize(a))
    IN  AppPosition(a.position, a.img_w, a.img_h, estimate[1], estimate[2])

\* process_single_image up to the entry of draw_watermark, which gets the
\* image width as max_width_constraint
ProcessSingleImage ==
    /\ args.fn = "process_single_image"
    /\ locals = NoLocals
    /\ result = << >>
    /\ EnterDrawWatermark(args.text, StartPosition(args)[1],
                          StartPosition(args)[2], args.img_w,
                          FinalFontSize(args))
    /\ UNCHANGED <<sys, folder_count, runs, worker, app_vars, suite_vars, args>>

InitLayout ==
    /\ Constructed("none", 0)
    /\ \/ \E impl \in {"app", "tool"}, position \in Anchors,
             w \in PositionImageDims, h \in PositionImageDims,
             tw \in PositionTextDims, th \in PositionTextDims :
            args = PositionArgs(impl, position, w, h, tw, th)
       \/ \E text \in DrawTexts, x \in {0, Margin}, budget \in Budgets,
             size \in DrawFontSizes :
            args = DrawArgs(text, x, 0, budget, size)
       \/ \E text \in DrawTexts \ {<< >>}, size \in DrawFontSizes,
             w \in LayoutDims, h \in LayoutDims, position \in Anchors,
             is_adaptive \in BOOLEAN :
            args = SingleImageArgs(text, size, w, h, position, is_adaptive)
    /\ locals = NoLocals
    /\ result = << >>

NextLayout ==
    \/ AppCalculatePosition
    \/ ToolCalculatePosition
    \/ DrawWatermark
    \/ ProcessSingleImage
    \/ WordLoop
    \/ FinalFlush

SpecLayout == InitLayout /\ [][NextLayout]_vars

(***************************************************************************)
(* Contrast colour: WatermarkApp._calculate_contrast_color and             *)
(* WatermarkTool.calculate_contrast_color_for_region                       *)
(*                                                                         *)
(* A region is what the analyzer is handed: whether it has no pixels,      *)
(* whether ImageStat.Stat raises on it, and the mean of its channels.      *)
(* The luminance is computed in double arithmetic; ComputedLuminance is    *)
(* that value in millionths: the exact value of                            *)
(* 0.299 r + 0.587 g + 0.114 b, plus the rounding error of the three       *)
(* products and two sums, which for the means tried is zero or a fraction  *)
(* of a millionth (FloatRounding gives its sign).                          *)
(***************************************************************************)
Black == <<0, 0, 0>>
White == <<255, 255, 255>>

\* self.color / self.watermark_color as constructed: yellow
DefaultColor == <<255, 255, 0>>

\* the channel means tried; <<128, 128, 128>> and <<4, 210, 31>> have the
\* exact luminance 128
MeanColours == {<<0, 0, 0>>, <<255, 255, 255>>, <<128, 128, 128>>,
                <<4, 210, 31>>, <<127, 127, 127>>, <<129, 129, 129>>,
                <<255, 255, 0>>, <<0, 0, 255>>}

\* 1000 * (0.299 r + 0.587 g + 0.114 b), exactly
ExactLuminance(mean) == 299 * mean[1] + 587 * mean[2] + 114 * mean[3]

\* the sign of (computed - exact) for 0.299 * r + 0.587 * g + 0.114 * b
\* evaluated left to right in IEEE doubles
FloatRounding(mean) ==
    CASE mean \in {<<128, 128, 128>>, <<127, 127, 127>>} -> -1
      [] mean \in {<<255, 255, 0>>, <<0, 0, 255>>} -> 1
      [] OTHER -> 0

\* luminance, in millionths
ComputedLuminance(mean) == 1000 * ExactLuminance(mean) + FloatRounding(mean)

Regions == [empty : BOOLEAN, stat_raises : BOOLEAN, mean : MeanColours]

\* WatermarkApp._calculate_contrast_color
AppContrastColor(region) ==
    IF region.empty THEN Black
    ELSE IF region.stat_raises THEN Black
    ELSE IF ComputedLuminance(region.mean) < 128000000 THEN White
    ELSE Black

\* WatermarkTool.calculate_contrast_color_for_region; ImageStat.Stat(...).mean
\* of a region without pixels raises ZeroDivisionError
ToolContrastColor(region, watermark_color) ==
    IF region.empty \/ region.stat_raises THEN watermark_color
    ELSE IF ComputedLuminance(region.mean) > 128000000 THEN Black
    ELSE White

ContrastArgs(impl, region) ==
    [fn |-> "contrast_color", impl |-> impl, region |-> region,
     color |-> DefaultColor]

AppCalculateContrastColor ==
    /\ args.fn = "contrast_color"
    /\ args.impl = "app"
    /\ result = << >>
    /\ result' = <<AppContrastColor(args.region)>>
    /\ UNCHANGED <<sys, folder_count, runs, worker, app_vars, suite_vars, args,
                   locals>>

ToolCalculateContrastColor ==
    /\ args.fn = "contrast_color"
    /\ args.impl = "tool"
    /\ result = << >>
    /\ result' = <<ToolContrastColor(args.region, args.color)>>
    /\ UNCHANGED <<sys, folder_count, runs, worker, app_vars, suite_vars, args,
                   locals>>

(***************************************************************************)
(* The fill colour of the watermark: process_single_image and              *)
(* add_watermark_to_image                                                  *)
(***************************************************************************)
\* watermark_bbox of process_single_image: <<left, top, right, bottom>>
WatermarkBbox(a) ==
    LET start == AppPosition(a.position, a.img_w, a.img_h, a.text_w, a.text_h)
        box_left == Max(0, start[1])
        box_top == Max(0, start[2])
        analyze_w == Min(a.img_w - box_left, a.text_w)
        analyze_h == Min(a.img_h - box_top, (3 * a.text_h) \div 2)
    IN  <<box_left, box_top, box_left + analyze_w, box_top + analyze_h>>

\* the region is sampled only if the box has a width and a height
BboxValid(bbox) == bbox[3] > bbox[1] /\ bbox[4] > bbox[2]

\* final_color_rgb of process_single_image
AppFillColor(a) ==
    IF ~a.is_high_contrast THEN a.color
    ELSE IF BboxValid(WatermarkBbox(a))
    THEN AppContrastColor([empty |-> FALSE, stat_raises |-> a.stat_raises,
                           mean |-> a.mean])
    ELSE a.color

\* color of add_watermark_to_image: the region is the text box at (x, y)
ToolFillColor(a) ==
    IF ~a.is_high_contrast THEN a.color
    ELSE ToolContrastColor([empty |-> a.text_w = 0 \/ a.text_h = 0,
                            stat_raises |-> a.stat_raises, mean |-> a.mean],
                           a.color)

\* the image and text sizes tried for the fill colour
FillImageDims == {30, 100}
FillTextDims == {0, 12}
FillMeans == {<<0, 0, 0>>, <<128, 128, 128>>, <<255, 255, 255>>}

FillArgs(impl, hc, position, img_w, img_h, text_w, text_h, raises, mean) ==
    [fn |-> "fill_color", impl |-> impl, is_high_contrast |-> hc,
     position |-> position, img_w |-> img_w, img_h |-> img_h,
     text_w |-> text_w, text_h |-> text_h, stat_raises |-> raises,
     mean |-> mean, color |-> DefaultColor]

AppChooseFillColor ==
    /\ args.fn = "fill_color"
    /\ args.impl = "app"
    /\ result = << >>
    /\ result' = <<AppFillColor(args)>>
    /\ UNCHANGED <<sys, folder_count, runs, worker, app_vars, suite_vars, args,
                   locals>>

ToolChooseFillColor ==
    /\ args.fn = "fill_color"
    /\ args.impl = "tool"
    /\ result = << >>
    /\ result' = <<ToolFillColor(args)>>
    /\ UNCHANGED <<sys, folder_count, runs, worker, app_vars, suite_vars, args,
                   locals>>

InitColour ==
    /\ Constructed("none", 0)
    /\ \/ \E impl \in {"app", "tool"}, region \in Regions :
            args = ContrastArgs(impl, region)
       \/ \E impl \in {"app", "tool"}, hc \in BOOLEAN, position \in Anchors,
             w \in FillImageDims, h \in FillImageDims, tw \in FillTextDims,
             th \in FillTextDims, raises \in BOOLEAN, mean \in FillMeans :
            args = FillArgs(impl, hc, position, w, h, tw, th, raises, mean)
    /\ locals = NoLocals
    /\ result = << >>

NextColour ==
    \/ AppCalculateContrastColor
    \/ ToolCalculateContrastColor
    \/ AppChooseFillColor
    \/ ToolChooseFillColor

SpecColour == InitColour /\ [][NextColour]_vars

(***************************************************************************)
(* Opacity: the alpha of the fill colour, computed from the opacity in     *)
(* percent at each of the three places that draw a watermark               *)
(***************************************************************************)
\* the opacity the inputs accept: 0 to 100
OpacityPercents == 0..100

\* int(x * 255 / 100) with 256 for 255
OpacityValueOf256(opacity_percent) == (opacity_percent * 256) \div 100

\* int(opacity_percent * 255 / 100): the quotient is not negative and int()
\* drops its fraction
OpacityValue(opacity_percent) == (opacity_percent * 255) \div 100

OpacityArgs(site, opacity_percent) ==
    [fn |-> "opacity_value", site |-> site, opacity_percent |-> opacity_percent]

\* WatermarkApp.preview_watermark
PreviewOpacityValue ==
    /\ args.fn = "opacity_value"
    /\ args.site = "preview"
    /\ result = << >>
    /\ result' = <<OpacityValue(args.opacity_percent)>>
    /\ UNCHANGED <<sys, folder_count, runs, worker, app_vars, suite_vars, args,
                   locals>>

\* WatermarkApp.start_processing_thread
BatchOpacityValue ==
    /\ args.fn = "opacity_value"
    /\ args.site = "batch"
    /\ result = << >>
    /\ result' = <<OpacityValue(args.opacity_percent)>>
    /\ UNCHANGED <<sys, folder_count, runs, worker, app_vars, suite_vars, args,
                   locals>>

\* WatermarkTool.add_watermark_to_image
ToolOpacityValue ==
    /\ args.fn = "opacity_value"
    /\ args.site = "tool"
    /\ result = << >>
    /\ result' = <<OpacityValue(args.opacity_percent)>>
    /\ UNCHANGED <<sys, folder_count, runs, worker, app_vars, suite_vars, args,
                   locals>>

InitOpacity ==
    /\ Constructed("none", 0)
    /\ \E site \in {"preview", "batch", "tool"}, opacity \in OpacityPercents :
         args = OpacityArgs(site, opacity)
    /\ locals = NoLocals
    /\ result = << >>

NextOpacity ==
    \/ PreviewOpacityValue
    \/ BatchOpacityValue
    \/ ToolOpacityValue

SpecOpacity == InitOpacity /\ [][NextOpacity]_vars

(***************************************************************************)
(* Dynamic text: the {exif_date} placeholder                               *)
(*                                                                         *)
(* A string that may hold a date is a record: form says how it is written  *)
(* ("colon" for YYYY:MM:DD HH:MM:SS, "dash" for YYYY-MM-DD HH:MM:SS,       *)
(* "other" for any other text, "empty" for the empty string) and date      *)
(* holds the six numbers written.  A stored EXIF value is absent, not a    *)
(* string, or a string that may be followed by a NUL and padding.  A       *)
(* watermark text is a sequence of pieces: "text" (literal characters),    *)
(* "{exif_date}" (the token) and "{EXIF_DATE}" (not the token); a piece    *)
(* that was substituted is the string put in its place.                    *)
(***************************************************************************)
NotAvailable == [form |-> "n/a"]
EmptyString == [form |-> "empty"]
OtherString == [form |-> "other"]

DateString(form, date) == [form |-> form, date |-> date]

\* a capture time, and six numbers that are not a time (month 13)
CaptureTime == <<2023, 1, 2, 3, 4, 5>>
NoTime == <<2023, 13, 2, 3, 4, 5>>

\* what strptime accepts for the fields of "%Y %m %d %H %M %S"
IsTime(date) ==
    /\ date[1] \in 1..9999
    /\ date[2] \in 1..12
    /\ date[3] \in 1..31
    /\ date[4] \in 0..23
    /\ date[5] \in 0..59
    /\ date[6] \in 0..61

\* datetime.strptime(string, fmt) does not raise ValueError
Parses(string, form) ==
    /\ string.form = form
    /\ IsTime(string.date)

\* dt_obj.strftime("%Y-%m-%d %H:%M:%S")
Strftime(date) == DateString("dash", date)

\* value.split('\x00')[0].strip()
Cleaned(value) == value.body

\* the tries of WatermarkApp._get_exif_datetime on one tag: both formats,
\* and the cleaned string itself when neither parses
AppParseTag(value) ==
    LET string == Cleaned(value) IN
    IF Parses(string, "colon") \/ Parses(string, "dash")
    THEN Strftime(string.date)
    ELSE string

\* the try of utils.get_exif_datetime on one tag: the colon format, and the
\* cleaned string itself when it does not parse
ToolParseTag(value) ==
    LET string == Cleaned(value) IN
    IF Parses(string, "colon") THEN Strftime(string.date) ELSE string

\* `if value and isinstance(value, str)`
IsNonEmptyStr(value) == value.kind = "str" /\ value.raw # "empty"

\* WatermarkApp._get_exif_datetime; << >> is None
AppGetExifDatetime(image) ==
    IF image.exif # "tags" THEN << >>
    ELSE IF IsNonEmptyStr(image.original)
    THEN <<AppParseTag(image.original)>>
    ELSE IF IsNonEmptyStr(image.modified)
    THEN <<AppParseTag(image.modified)>>
    ELSE << >>

\* utils.get_exif_datetime; << >> is None
ToolGetExifDatetime(image) ==
    IF image.exif # "tags" THEN << >>
    ELSE IF IsNonEmptyStr(image.original)
    THEN <<ToolParseTag(image.original)>>
    ELSE IF IsNonEmptyStr(image.modified)
    THEN <<ToolParseTag(image.modified)>>
    ELSE << >>

\* `exif_date_str if exif_date_str else "N/A"`
ReplaceWith(found) ==
    IF found = << >> \/ found = <<EmptyString>> THEN NotAvailable
    ELSE found[1]

\* text.replace("{exif_date}", replace_with)
Replace(text, replace_with) ==
    [k \in 1..Len(text) |->
        IF text[k] = "{exif_date}" THEN replace_with ELSE text[k]]

ContainsToken(text) == \E k \in 1..Len(text) : text[k] = "{exif_date}"

\* WatermarkApp._process_dynamic_text
AppDynamicText(text, image) ==
    IF ContainsToken(text)
    THEN Replace(text, ReplaceWith(AppGetExifDatetime(image)))
    ELSE text

\* WatermarkTool.process_dynamic_text
ToolDynamicText(text, image) ==
    IF ContainsToken(text)
    THEN Replace(text, ReplaceWith(ToolGetExifDatetime(image)))
    ELSE text

\* the stored values tried for a tag; raw is "empty" when the value itself
\* is the empty string, body is what is left of it once cleaned
StoredStrings ==
    {DateString("colon", CaptureTime), DateString("dash", CaptureTime),
     DateString("colon", NoTime), OtherString, EmptyString}

StoredValues ==
    {[kind |-> "absent"], [kind |-> "bytes"]}
    \cup {[kind |-> "str", raw |-> "text", body |-> s] : s \in StoredStrings}
    \cup {[kind |-> "str", raw |-> "empty", body |-> EmptyString]}

\* the images tried: getexif() raises, returns no data, or returns tags
Images ==
    {[exif |-> "raises"], [exif |-> "none"]}
    \cup {[exif |-> "tags", original |-> o, modified |-> m] :
             o \in StoredValues, m \in StoredValues}

DynamicTexts ==
    {<<"text">>, <<"{exif_date}">>, <<"text", "{exif_date}">>,
     <<"{exif_date}", "text", "{exif_date}">>, <<"{EXIF_DATE}">>}

DynamicArgs(impl, text, image) ==
    [fn |-> "process_dynamic_text", impl |-> impl, text |-> text,
     image |-> image]

AppProcessDynamicText ==
    /\ args.fn = "process_dynamic_text"
    /\ args.impl = "app"
    /\ result = << >>
    /\ result' = <<AppDynamicText(args.text, args.image)>>
    /\ UNCHANGED <<sys, folder_count, runs, worker, app_vars, suite_vars, args,
                   locals>>

ToolProcessDynamicText ==
    /\ args.fn = "process_dynamic_text"
    /\ args.impl = "tool"
    /\ result = << >>
    /\ result' = <<ToolDynamicText(args.text, args.image)>>
    /\ UNCHANGED <<sys, folder_count, runs, worker, app_vars, suite_vars, args,
                   locals>>

InitDynamic ==
    /\ Constructed("none", 0)
    /\ \E impl \in {"app", "tool"}, text \in DynamicTexts, image \in Images :
         args = DynamicArgs(impl, text, image)
    /\ locals = NoLocals
    /\ result = << >>

NextDynamic ==
    \/ AppProcessDynamicText
    \/ ToolProcessDynamicText

SpecDynamic == InitDynamic /\ [][NextDynamic]_vars

(***************************************************************************)
(* Output paths of a batch                                                 *)
(*                                                                         *)
(* A file of the selected folder is a record: its name is base and ext,    *)
(* format and mode are what Image.open reports for its content.  The       *)
(* output path of a file is a name in the Watermarked_Images folder.       *)
(***************************************************************************)
FileBases == {"a", "b"}
FileExts == {".png", ".gif", ".jpg"}
FileFormats == {"PNG", "GIF", "JPEG", "TIFF"}
FileModes == {"RGB", "RGBA"}

Files ==
    [base : FileBases, ext : FileExts, format : FileFormats, mode : FileModes]

Path(file_base, file_ext) == [base |-> file_base, ext |-> file_ext]

\* os.path.join(self.output_folder, filename)
SameName(file) == Path(file.base, file.ext)

\* the output_path process_single_image saves to
AppOutputPath(file) ==
    IF file.format = "JPEG" THEN SameName(file)
    ELSE IF file.format = "BMP" \/ file.ext = ".bmp" THEN SameName(file)
    ELSE IF file.format = "GIF" \/ file.ext = ".gif"
    THEN Path(file.base, ".png")
    ELSE IF file.format = "WEBP" \/ file.ext = ".webp" THEN SameName(file)
    ELSE IF file.format = "PNG" \/ file.ext = ".png" THEN SameName(file)
    ELSE IF file.mode \in {"RGBA", "LA", "P"} THEN Path(file.base, ".png")
    ELSE SameName(file)

\* the path save_image saves to: original_format is image.format after
\* ImageOps.exif_transpose ("None" when the image is a copy), save_raises
\* says whether image.save(output_path, save_format) raised
ToolOutputPath(file, original_format, save_raises) ==
    LET save_format ==
            IF original_format = "None" THEN "PNG" ELSE original_format
    IN  IF save_format \in {"JPEG", "JPG", "PNG", "WEBP"} THEN SameName(file)
        ELSE IF save_raises /\ file.ext # ".png" THEN Path(file.base, ".png")
        ELSE SameName(file)

\* the listings tried: one or two files with different names
Listings ==
    {<<f>> : f \in Files}
    \cup {pair \in {<<f, g>> : f \in Files, g \in Files} :
             SameName(pair[1]) # SameName(pair[2])}

OutputArgs(impl, files) == [fn |-> "save_outputs", impl |-> impl, files |-> files]

OutputLocals == [pc |-> "save", i |-> 1, written |-> << >>]

\* one pass of the loop of _processing_thread_target on an item that
\* succeeds: process_single_image saves the image
AppSaveImage ==
    /\ args.fn = "save_outputs"
    /\ args.impl = "app"
    /\ locals.pc = "save"
    /\ LET file == args.files[locals.i]
           last == locals.i = Len(args.files)
       IN  /\ locals' = [locals EXCEPT
                 !.pc = IF last THEN "done" ELSE "save",
                 !.i = @ + 1,
                 !.written = Append(@, AppOutputPath(file))]
           /\ result' = IF last THEN <<Len(locals.written) + 1>> ELSE result
    /\ UNCHANGED <<sys, folder_count, runs, worker, app_vars, suite_vars, args>>

\* one pass of the loop of process_images_thread on an item that succeeds:
\* save_image saves the image
ToolSaveImage ==
    /\ args.fn = "save_outputs"
    /\ args.impl = "tool"
    /\ locals.pc = "save"
    /\ \E from_copy \in BOOLEAN, save_raises \in BOOLEAN :
         LET file == args.files[locals.i]
             last == locals.i = Len(args.files)
             original_format == IF from_copy THEN "None" ELSE file.format
         IN  /\ locals' = [locals EXCEPT
                   !.pc = IF last THEN "done" ELSE "save",
                   !.i = @ + 1,
                   !.written = Append(@,
                       ToolOutputPath(file, original_format, save_raises))]
             /\ result' = IF last THEN <<Len(locals.written) + 1>> ELSE result
    /\ UNCHANGED <<sys, folder_count, runs, worker, app_vars, suite_vars, args>>

InitOutput ==
    /\ Constructed("none", 0)
    /\ \E impl \in {"app", "tool"}, files \in Listings :
         args = OutputArgs(impl, files)
    /\ locals = OutputLocals
    /\ result = << >>

NextOutput ==
    \/ AppSaveImage
    \/ ToolSaveImage

SpecOutput == InitOutput /\ [][NextOutput]_vars

(***************************************************************************)
(* WatermarkApp alone, with its scheduling: the worker thread keeps        *)
(* running until its function returns, and the after(100) callback         *)
(* _check_queue fires as long as the chain of polls is alive.              *)
(***************************************************************************)
InitApp ==
    /\ \E n \in 0..MaxImages : Constructed("app", n)
    /\ args = NoArgs
    /\ locals = NoLocals
    /\ result = << >>

\* a step of the worker thread of run r
AppWorkerStep(r) ==
    \/ AppSetup(r)
    \/ AppCheck(r)
    \/ AppItem(r)
    \/ AppFinal(r)

NextApp ==
    \/ SelectFolder
    \/ StartProcessingThread
    \/ RequestStopProcessing
    \/ \E r \in Runs : AppWorkerStep(r)
    \/ CheckQueue

AppFairness ==
    /\ \A r \in Runs : WF_vars(AppWorkerStep(r))
    /\ WF_vars(CheckQueue)

SpecAppFair == InitApp /\ [][NextApp]_vars /\ AppFairness

(***************************************************************************)
(* ConfigManager                                                           *)
(*                                                                         *)
(* A dict of settings is a set of <<key, value>> pairs.  A configuration   *)
(* maps each section name to a record: here says whether the section is a  *)
(* key of the configuration, items is its dict.  A manager is a record:    *)
(* default_config and config are the two attributes, shared[s] says that   *)
(* config[s] and default_config[s] are one and the same dict object, as    *)
(* they are after dict.copy() of the outer dict, and loaded says that      *)
(* load_settings has run.  A file is absent, unreadable as JSON, or holds  *)
(* a configuration.                                                        *)
(***************************************************************************)
Sections == {"watermark", "gif"}

\* the default_config literal of __init__ (two sections, their numbers)
BuiltinDefaults ==
    [s \in Sections |->
        IF s = "watermark" THEN {<<"font_size", 40>>, <<"opacity", 80>>}
        ELSE {<<"delay", 500>>}]

\* the values tried for the keys of a section
Settings ==
    [s \in Sections |->
        IF s = "watermark"
        THEN {<<"font_size", 40>>, <<"font_size", 50>>, <<"opacity", 80>>}
        ELSE {<<"delay", 500>>, <<"delay", 100>>}]

KeysOf(items) == {p[1] : p \in items}

\* the sets of pairs that are dicts: no key twice
Dicts(s) ==
    {items \in SUBSET Settings[s] :
        \A p \in items, q \in items : p[1] = q[1] => p = q}

\* dict.update(values)
Update(items, values) ==
    {p \in items : p[1] \notin KeysOf(values)} \cup values

NoSection == [here |-> FALSE, items |-> {}]
Section(items) == [here |-> TRUE, items |-> items]

\* ConfigManager.__init__
NewConfigManager ==
    [default_config |-> BuiltinDefaults,
     config |-> [s \in Sections |-> NoSection],
     shared |-> [s \in Sections |-> FALSE],
     loaded |-> FALSE]

\* self.config = self.default_config.copy(): a new outer dict whose values
\* are the section dicts of default_config themselves
CopyOfDefaults(m) ==
    [m EXCEPT !.config = [s \in Sections |-> Section(m.default_config[s])],
              !.shared = [s \in Sections |-> TRUE]]

\* merge_configs(self.default_config, loaded_config): a section of the file
\* is merged into a new dict, a section the file lacks stays the dict of
\* default_config
MergeConfigs(m, loaded_config) ==
    [m EXCEPT
       !.config = [s \in Sections |->
           IF loaded_config[s].here
           THEN Section(Update(m.default_config[s], loaded_config[s].items))
           ELSE Section(m.default_config[s])],
       !.shared = [s \in Sections |-> ~loaded_config[s].here]]

NoFile == [state |-> "absent"]
BadFile == [state |-> "not json"]
FileOf(config) == [state |-> "json", config |-> config]

\* load_settings
LoadSettings(m, file) ==
    [(IF file.state = "json" THEN MergeConfigs(m, file.config)
      ELSE CopyOfDefaults(m))
     EXCEPT !.loaded = TRUE]

\* the write of new items to the dict of section s: it is seen through
\* default_config as well when the two share the dict
WriteSection(m, s, items) ==
    [m EXCEPT !.config[s] = Section(items),
              !.default_config[s] = IF m.shared[s] THEN items ELSE @]

\* the section s created empty when config lacks it
WithSection(m, s) ==
    IF m.config[s].here THEN m
    ELSE [m EXCEPT !.config[s] = Section({}), !.shared[s] = FALSE]

\* set('section.key', value)
Set(m, s, pair) ==
    LET n == WithSection(m, s)
    IN  WriteSection(n, s, Update(n.config[s].items, {pair}))

\* update_section(section, values)
UpdateSection(m, s, values) ==
    LET n == WithSection(m, s)
    IN  WriteSection(n, s, Update(n.config[s].items, values))

\* get_section(section): self.config.get(section, {}).copy()
GetSection(m, s) == m.config[s].items

\* reset_to_defaults(section)
ResetSectionToDefaults(m, s) ==
    [m EXCEPT !.config[s] = Section(m.default_config[s]),
              !.shared[s] = FALSE]

\* reset_to_defaults()
ResetToDefaults(m) == CopyOfDefaults(m)

\* the sections tried as content of the file: none, empty, one setting
FileSections(s) ==
    {NoSection} \cup {Section(d) : d \in {x \in Dicts(s) : Cardinality(x) <= 1}}

FileConfigs ==
    {c \in [Sections -> UNION {FileSections(s) : s \in Sections}] :
        \A s \in Sections : c[s] \in FileSections(s)}

ConfigFiles == {NoFile, BadFile} \cup {FileOf(c) : c \in FileConfigs}

\* save_settings: json.dump(self.config, f)
SaveSettings(m) == FileOf(m.config)

ConfigArgs == [fn |-> "config_manager"]

\* the manager, the file and the last call made
ConfigLocals(m, file, op, section) ==
    [pc |-> "config", m |-> m, file |-> file,
     last |-> [op |-> op, section |-> section]]

CallLoadSettings ==
    /\ args.fn = "config_manager"
    /\ locals' = ConfigLocals(LoadSettings(locals.m, locals.file), locals.file,
                              "load_settings", "None")
    /\ UNCHANGED <<sys, folder_count, runs, worker, app_vars, suite_vars, args,
                   result>>

CallSet ==
    /\ args.fn = "config_manager"
    /\ \E s \in Sections :
         \E pair \in Settings[s] :
            locals' = ConfigLocals(Set(locals.m, s, pair), locals.file,
                                   "set", s)
    /\ UNCHANGED <<sys, folder_count, runs, worker, app_vars, suite_vars, args,
                   result>>

CallUpdateSection ==
    /\ args.fn = "config_manager"
    /\ \E s \in Sections :
         \E values \in Dicts(s) :
            locals' = ConfigLocals(UpdateSection(locals.m, s, values),
                                   locals.file, "update_section", s)
    /\ UNCHANGED <<sys, folder_count, runs, worker, app_vars, suite_vars, args,
                   result>>

CallResetToDefaults ==
    /\ args.fn = "config_manager"
    /\ \E section \in Sections \cup {"None"} :
         locals' = ConfigLocals(IF section = "None"
                                THEN ResetToDefaults(locals.m)
                                ELSE ResetSectionToDefaults(locals.m, section),
                                locals.file, "reset_to_defaults", section)
    /\ UNCHANGED <<sys, folder_count, runs, worker, app_vars, suite_vars, args,
                   result>>

CallSaveSettings ==
    /\ args.fn = "config_manager"
    /\ locals' = ConfigLocals(locals.m, SaveSettings(locals.m),
                              "save_settings", "None")
    /\ UNCHANGED <<sys, folder_count, runs, worker, app_vars, suite_vars, args,
                   result>>

InitConfig ==
    /\ Constructed("none", 0)
    /\ args = ConfigArgs
    /\ \E file \in ConfigFiles :
         locals = ConfigLocals(NewConfigManager, file, "__init__", "None")
    /\ result = << >>

NextConfig ==
    \/ CallLoadSettings
    \/ CallSet
    \/ CallUpdateSection
    \/ CallResetToDefaults
    \/ CallSaveSettings

SpecConfig == InitConfig /\ [][NextConfig]_vars

(***************************************************************************)
(* Sessions of PicToolSuite: construction, use, closing, next start.       *)
(* tool holds the watermark variables of WatermarkTool; saved and updated  *)
(* are history: the watermark settings the last closed session handed to   *)
(* update_section and then saved, and whether this session has called      *)
(* update_section.                                                         *)
(***************************************************************************)
\* the initial values of the tk variables of WatermarkTool
ToolDefaults == {<<"font_size", 40>>, <<"opacity", 80>>}

\* the values the user can set: every key has a value
ToolSettings == {d \in Dicts("watermark") : KeysOf(d) = KeysOf(ToolDefaults)}

\* WatermarkTool.load_settings: watermark_config.get(key, default) per key
ToolLoadSettings(watermark_config) == Update(ToolDefaults, watermark_config)

SessionArgs == [fn |-> "session"]

\* the state after setup_variables: a new ConfigManager, nothing loaded
SessionStart(file, saved) ==
    [pc |-> "variables", m |-> NewConfigManager, file |-> file,
     tool |-> ToolDefaults, saved |-> saved, updated |-> FALSE]

\* initialize_tools, called by setup_ui: WatermarkTool.__init__ ends with
\* its load_settings
InitializeTools ==
    /\ args.fn = "session"
    /\ locals.pc = "variables"
    /\ locals' = [locals EXCEPT
          !.pc = "tools",
          !.tool = ToolLoadSettings(GetSection(locals.m, "watermark"))]
    /\ UNCHANGED <<sys, folder_count, runs, worker, app_vars, suite_vars, args,
                   result>>

\* PicToolSuite.load_settings, the last call of __init__
SuiteLoadSettings ==
    /\ args.fn = "session"
    /\ locals.pc = "tools"
    /\ locals' = [locals EXCEPT !.pc = "running",
                                !.m = LoadSettings(locals.m, locals.file)]
    /\ UNCHANGED <<sys, folder_count, runs, worker, app_vars, suite_vars, args,
                   result>>

\* the user changes the watermark controls
EditWatermarkSettings ==
    /\ args.fn = "session"
    /\ locals.pc = "running"
    /\ \E values \in ToolSettings : locals' = [locals EXCEPT !.tool = values]
    /\ UNCHANGED <<sys, folder_count, runs, worker, app_vars, suite_vars, args,
                   result>>

\* WatermarkTool.save_settings (the save button, and start_processing)
ToolSaveSettings ==
    /\ args.fn = "session"
    /\ locals.pc = "running"
    /\ locals' = [locals EXCEPT
          !.m = UpdateSection(locals.m, "watermark", locals.tool),
          !.updated = TRUE]
    /\ UNCHANGED <<sys, folder_count, runs, worker, app_vars, suite_vars, args,
                   result>>

\* on_closing: PicToolSuite.save_settings, then the window is destroyed
OnClosing ==
    /\ args.fn = "session"
    /\ locals.pc = "running"
    /\ locals' = [locals EXCEPT
          !.pc = "closed",
          !.file = SaveSettings(locals.m),
          !.saved = IF locals.updated
                    THEN Section(GetSection(locals.m, "watermark"))
                    ELSE @]
    /\ UNCHANGED <<sys, folder_count, runs, worker, app_vars, suite_vars, args,
                   result>>

\* the next start of the program: PicToolSuite.__init__ up to setup_variables
NextStartup ==
    /\ args.fn = "session"
    /\ locals.pc = "closed"
    /\ locals' = SessionStart(locals.file, locals.saved)
    /\ UNCHANGED <<sys, folder_count, runs, worker, app_vars, suite_vars, args,
                   result>>

InitSession ==
    /\ Constructed("none", 0)
    /\ args = SessionArgs
    /\ \E file \in ConfigFiles : locals = SessionStart(file, NoSection)
    /\ result = << >>

NextSession ==
    \/ InitializeTools
    \/ SuiteLoadSettings
    \/ EditWatermarkSettings
    \/ ToolSaveSettings
    \/ OnClosing
    \/ NextStartup

SpecSession == InitSession /\ [][NextSession]_vars

Next ==
    \/ SelectFolder
    \/ StartProcessingThread
    \/ RequestStopProcessing
    \/ \E r \in Runs : AppSetup(r)
    \/ \E r \in Runs : AppCheck(r)
    \/ \E r \in Runs : AppItem(r)
    \/ \E r \in Runs : AppFinal(r)
    \/ CheckQueue
    \/ ToolSelectFolder
    \/ StartProcessing
    \/ StopProcessing
    \/ \E r \in Runs : ToolSetup(r)
    \/ \E r \in Runs : ToolCheck(r)
    \/ \E r \in Runs : ToolItem(r)
    \/ \E r \in Runs : ToolFinal(r)
    \/ GifStartGeneration
    \/ GifThreadFinally
    \/ CheckMessageQueue

Spec == Init /\ [][Next]_vars

(***************************************************************************)
(* Properties of the batch run                                             *)
(***************************************************************************)
Started(r) == worker[r].pc # "none"
Done(r) == worker[r].pc = "done"
Alive == {r \in Runs : IsAlive(r)}

EventsOfType(r, t) == SelectSeq(worker[r].events, LAMBDA m : m.type = t)

\* the progress events of run r
ProgressEvents(r) == EventsOfType(r, "progress")

\* the "处理图片 i/total: filename" status events of run r (suite only)
ItemStatusEvents(r) ==
    SelectSeq(worker[r].events,
              LAMBDA m : m.type = "status" /\ m.kind = "item")

\* the per-item error events of run r: they name a file
ItemErrorEvents(r) ==
    SelectSeq(worker[r].events,
              LAMBDA m : m.type = "error" /\ "file" \in DOMAIN m)

\* the events of run r that carry a fatal error
FatalEvents(r) ==
    SelectSeq(worker[r].events,
              LAMBDA m : \/ m.type = "error" /\ "fatal" \in DOMAIN m
                         \/ m.type = "finished" /\ m.error # NoError)

\* the final summary events of run r: they carry the two counts
SummaryEvents(r) ==
    SelectSeq(worker[r].events,
              LAMBDA m : \/ m.type = "finished"
                         \/ m.type = "status" /\ m.kind = "done")

\* the events of run r that say it was cancelled (suite only)
CancelledEvents(r) ==
    SelectSeq(worker[r].events,
              LAMBDA m : m.type = "status" /\ m.kind = "cancelled")

\* the loop of run r ended before its last item
CutShort(r) ==
    /\ worker[r].pc \in {"final", "done"}
    /\ ~worker[r].setup_failed
    /\ worker[r].i < worker[r].total

\* run r has been reported as cancelled, where it has been reported at all:
\* by the status event in the suite, by label and dialog in the application
ReportedCancelled(r) ==
    /\ sys = "suite" => Len(CancelledEvents(r)) = 1
    /\ sys = "app" => \A k \in 1..Len(reports[r]) :
                          reports[r][k] = <<"stopped", "stopped">>

\* every item that was started and is no longer in flight is counted once
ItemsCounted(r) ==
    worker[r].processed + worker[r].skipped =
        Len(worker[r].opened) - (IF worker[r].pc = "item" THEN 1 ELSE 0)

\* C1: cancellation is honoured only at item boundaries: an item in flight
\* when the stop flag is set still ends counted as processed or skipped; an
\* item whose pre-item check comes after the flag was set is never opened;
\* and a run cut short this way ends as Cancelled.
C1_CancelOnlyAtItemBoundary ==
    [][\A r \in Runs :
         /\ ItemsCounted(r)'
         /\ (worker[r].pc = "check" /\ worker[r].stop_during)
                => worker'[r].opened = worker[r].opened
         /\ (Done(r)' /\ CutShort(r)') => ReportedCancelled(r)']_vars

\* C2: a failure while processing an item adds one to skipped and nothing to
\* processed, the loop goes on to the next item, every item is attempted
\* unless a stop was requested, and the run does not end as Failed.
C2_ItemFailureIsSkipped ==
    \A r \in Runs :
      LET w == worker[r] IN
        /\ w.skipped = Len(w.failures)
        /\ w.processed + w.skipped = w.i
        /\ ItemsCounted(r)
        /\ (Done(r) /\ ~w.setup_failed /\ ~w.stop_during) => w.i = w.total
        /\ (Done(r) /\ w.failures # << >>) =>
              /\ Len(FatalEvents(r)) = 0
              /\ \A k \in 1..Len(reports[r]) : reports[r][k][2] # "failed"

\* a run in which the first item failed and the second was processed
C2_Witness ==
    \E r \in Runs :
      /\ Done(r)
      /\ worker[r].total = 2
      /\ worker[r].failures = <<ImageFile(1, 2)>>
      /\ worker[r].processed = 1

\* the index in the events of run r of the progress event of its j-th item
RECURSIVE IndexOfProgress(_, _, _)
IndexOfProgress(events, j, from) ==
    IF from > Len(events) THEN Len(events) + 1
    ELSE IF events[from].type = "progress"
    THEN IF j = 1 THEN from ELSE IndexOfProgress(events, j - 1, from + 1)
    ELSE IndexOfProgress(events, j, from + 1)

\* position of the k-th item of run r in the list: ImageFile(k, n) -> k
ItemIndex(file, n) == n + 1 - file

\* C3: every item whose processing fails puts exactly one error event naming
\* the file on the sink, after the progress event of that item and before
\* the progress event of the next one; the number of error events of a run
\* equals its skipped count.
C3_OneErrorEventPerFailure ==
    \A r \in Runs :
      LET w == worker[r]
          errs == ItemErrorEvents(r)
      IN  /\ Len(errs) = Len(w.failures)
          /\ Len(errs) = w.skipped
          /\ \A k \in 1..Len(errs) : errs[k].file = w.failures[k]
          /\ \A e \in 1..Len(w.events) :
               (w.events[e].type = "error" /\ "file" \in DOMAIN w.events[e]) =>
                 LET j == ItemIndex(w.events[e].file, w.total) IN
                   /\ IndexOfProgress(w.events, j, 1) < e
                   /\ e < IndexOfProgress(w.events, j + 1, 1)

\* C4: when the setup step fails no item is processed, no progress or
\* per-item error event is emitted, and the run ends with one fatal error and
\* both counts zero; a run whose setup succeeded reports no fatal error.
C4_FatalSetupAborts ==
    \A r \in Runs :
      LET w == worker[r] IN
        /\ w.setup_failed =>
             /\ Done(r)
             /\ w.opened = << >>
             /\ w.processed = 0 /\ w.skipped = 0
             /\ Len(ProgressEvents(r)) = 0
             /\ Len(ItemErrorEvents(r)) = 0
             /\ Len(FatalEvents(r)) = 1
             /\ \A k \in 1..Len(SummaryEvents(r)) :
                  /\ SummaryEvents(r)[k].processed = 0
                  /\ SummaryEvents(r)[k].skipped = 0
             /\ \A k \in 1..Len(reports[r]) : reports[r][k][2] = "failed"
        /\ ~w.setup_failed =>
             /\ Len(FatalEvents(r)) = 0
             /\ \A k \in 1..Len(reports[r]) : reports[r][k][2] # "failed"

\* a run of the application whose setup failed and that has been reported
C4_Witness ==
    \E r \in Runs :
      /\ sys = "app"
      /\ worker[r].setup_failed
      /\ reports[r] = <<<<"error_end", "failed">>>>

\* C5: every started run emits exactly one final summary event carrying the
\* processed and skipped counts, on every termination path, and it is the
\* last event of the run.
C5_OneFinalSummary ==
    \A r \in Runs :
      LET w == worker[r] IN
        /\ Len(SummaryEvents(r)) <= 1
        /\ Done(r) =>
             /\ Len(SummaryEvents(r)) = 1
             /\ Last(w.events) = SummaryEvents(r)[1]
             /\ Last(w.events).processed = w.processed
             /\ Last(w.events).skipped = w.skipped

\* C6: the k items started by a run over n paths are the first k paths of
\* the list, in order; exactly k progress events are emitted, the j-th one
\* carrying j of n and referring to the j-th path.
C6_ProgressInListOrder ==
    \A r \in Runs :
      LET w == worker[r]
          prog == ProgressEvents(r)
          item == ItemStatusEvents(r)
      IN  /\ Len(prog) = Len(w.opened)
          /\ \A j \in 1..Len(w.opened) : w.opened[j] = ImageFile(j, w.total)
          /\ sys = "app" =>
               \A j \in 1..Len(prog) :
                 /\ prog[j].cur = j
                 /\ prog[j].total = w.total
                 /\ prog[j].file = ImageFile(j, w.total)
          /\ sys = "suite" =>
               /\ Len(item) = Len(prog)
               /\ \A j \in 1..Len(prog) :
                    /\ prog[j].num * w.total = j * 100 * prog[j].den
                    /\ item[j].cur = j
                    /\ item[j].total = w.total
                    /\ item[j].file = ImageFile(j, w.total)

\* a cancelled run that started one of its two items
C6_Witness ==
    \E r \in Runs :
      /\ Done(r)
      /\ worker[r].total = 2
      /\ Len(ProgressEvents(r)) = 1
      /\ worker[r].opened = <<ImageFile(1, 2)>>

\* the outcome a progress label stands for
LabelOutcome(label) ==
    IF label = "stopped" THEN "Cancelled"
    ELSE IF label = "error_end" THEN "Failed"
    ELSE "Completed"

\* the outcome a result dialog stands for
DialogOutcome(box) ==
    IF box = "stopped" THEN "Cancelled"
    ELSE IF box = "failed" THEN "Failed"
    ELSE "Completed"

\* C7: _handle_completion reports every finished run with one outcome: the
\* progress label and the result dialog indicate the same one of Completed,
\* Cancelled and Failed.
C7_LabelAndDialogAgree ==
    \A r \in Runs : \A k \in 1..Len(reports[r]) :
      LabelOutcome(reports[r][k][1]) = DialogOutcome(reports[r][k][2])

\* C8: at no time are two watermark batch workers alive at once.
C8_SingleWorker == Cardinality(Alive) <= 1

\* C9: at the start of every run the stop flag is false and the counters
\* are zero, and a run during which no stop is requested attempts all of its
\* items, whatever the outcome of the runs before it.
C9_RunsAreIndependent ==
    \A r \in Runs :
      LET w == worker[r] IN
        /\ (w.pc = "setup" /\ ~w.stop_during) =>
              /\ sys = "app" => ~stop_requested
              /\ sys = "suite" => ~tool_stop_requested
        /\ w.pc = "setup" => (w.processed = 0 /\ w.skipped = 0 /\ w.i = 0)
        /\ (Done(r) /\ ~w.setup_failed /\ ~w.stop_during) =>
              Len(w.opened) = w.total

\* a second run that attempted both items after the first run was cancelled
C9_Witness ==
    /\ Done(1) /\ CutShort(1) /\ worker[1].stop_during
    /\ Done(2) /\ ~worker[2].stop_during
    /\ Len(worker[2].opened) = 2

(***************************************************************************)
(* Properties of the adaptive font size                                    *)
(***************************************************************************)
SizerReturned ==
    /\ args.fn = "calculate_adaptive_font_size"
    /\ result # << >>

\* C10 as stated: for a non-empty text the size returned lies within
\* [max(10, 0.015 * min(w, h)), 0.30 * min(w, h)].
C10_SizeWithinStatedRange ==
    (SizerReturned /\ args.text # << >>) =>
       LET m == Min(args.img_w, args.img_h)
           size == result[1]
       IN  /\ size >= 10
           /\ 1000 * size >= 15 * m
           /\ 100 * size <= 30 * m

\* C10 as amended: for a non-empty text the size returned lies within
\* [max(10, floor(0.015 * min(w, h))), max(11, floor(0.30 * min(w, h)))].
C10_SizeWithinClampRange ==
    (SizerReturned /\ args.text # << >>) =>
       LET m == Min(args.img_w, args.img_h)
           size == result[1]
       IN  /\ size >= Max(10, (15 * m) \div 1000)
           /\ size <= Max(11, (30 * m) \div 100)

\* a small image, 0.30 * min(w, h) = 6, for which the application returns 11
C10_Witness ==
    /\ SizerReturned
    /\ args.impl = "app"
    /\ args.text # << >>
    /\ Min(args.img_w, args.img_h) = 20
    /\ result = <<11>>

\* the size the implementation named by impl returns
AdaptiveFontSize(impl, text, img_w, img_h) ==
    IF impl = "app" THEN AppAdaptiveFontSize(text, BaseFontSize, img_w, img_h)
    ELSE ToolAdaptiveFontSize(text, img_w, img_h)

\* the candidate range [minSize, maxSize] of the implementation named by impl
MinSize(impl, img_w, img_h) ==
    IF impl = "app" THEN AppMinFontSize(img_w, img_h)
    ELSE ToolMinFontSize(img_w, img_h)

MaxSize(impl, img_w, img_h) ==
    IF impl = "app" THEN AppMaxFontSize(img_w, img_h)
    ELSE ToolMaxFontSize(img_w, img_h)

\* the candidate sizes whose single-line width is at most 0.80 * img_w
FittingSizes(impl, text, img_w, img_h) ==
    {s \in MinSize(impl, img_w, img_h)..MaxSize(impl, img_w, img_h) :
        FitsTarget(SingleLineWidth(text, s), img_w)}

\* C11: for a non-empty text, whenever some size of [minSize, maxSize] has a
\* single-line width of at most 0.80 * imageWidth, the size returned is the
\* largest such size (GlyphWidth is non-decreasing in the font size).
C11_ReturnsLargestFittingSize ==
    (SizerReturned /\ args.text # << >>) =>
       LET fitting == FittingSizes(args.impl, args.text, args.img_w,
                                   args.img_h)
       IN  fitting # {} =>
             /\ result[1] \in fitting
             /\ \A s \in fitting : s <= result[1]

\* C12: for the same non-empty text and image height, a smaller image width
\* never yields a larger size.
C12_MonotonicInWidth ==
    (SizerReturned /\ args.text # << >>) =>
       \A w1 \in Dims :
          w1 <= args.img_w =>
             AdaptiveFontSize(args.impl, args.text, w1, args.img_h)
                <= result[1]

(***************************************************************************)
(* Properties of the line breaking and of the position                     *)
(***************************************************************************)
\* the calls of draw.text made so far
Drawn == IF locals.pc \in {"loop", "done"} THEN locals.runs ELSE << >>

DrawReturned ==
    /\ args.fn \in {"draw_watermark", "process_single_image"}
    /\ result # << >>

\* the texts of the runs, in the order drawn
DrawnText == [j \in 1..Len(Drawn) |-> Drawn[j].text]

\* C13: once draw_watermark has returned, the texts of the runs it drew, in
\* the order drawn, concatenate to the original text.
C13_RunsReconstructText ==
    DrawReturned => DrawnText = args.text

\* C14: every run drawn starts and ends within
\* [x_start, x_start + max_width_constraint], unless it is a single character
\* wider than max_width_constraint.
C14_RunsWithinWidth ==
    \A j \in 1..Len(Drawn) :
       \/ Drawn[j].x + Drawn[j].width
             <= locals.x_start + locals.max_width_constraint
       \/ Drawn[j].width > locals.max_width_constraint

\* a word was force-broken over two lines, and a character that is not the
\* first of its line ends exactly on the limit
C14_Witness ==
    /\ locals.pc = "done"
    /\ args.fn = "draw_watermark"
    /\ Len(locals.forced_lines) >= 2
    /\ \E j \in 1..Len(Drawn) :
          /\ Drawn[j].x > locals.x_start
          /\ Drawn[j].x + Drawn[j].width
                = locals.x_start + locals.max_width_constraint

\* the runs that drew the k-th character of the word of index w
RunsOfChar(w, k) == {j \in 1..Len(Drawn) : Drawn[j].char = <<w, k>>}

WordLoopBounded ==
    locals.pc \in {"loop", "done"} =>
       /\ \A w \in 1..Len(locals.words) : locals.visits[w] <= 2
       /\ \A l \in 1..Len(locals.forced_lines) : locals.forced_lines[l] >= 1
       /\ \A w \in 1..Len(locals.words) :
             \A k \in 1..Len(locals.words[w]) :
                /\ Cardinality(RunsOfChar(w - 1, k)) <= 1
                /\ locals.pc = "done" =>
                      /\ Cardinality(RunsOfChar(w - 1, k)) = 1
                      /\ \A j \in RunsOfChar(w - 1, k) :
                            Drawn[j].text = locals.words[w][k]

\* twice the number of words still to place, plus one while a line is
\* buffered: a natural number
LoopVariant(d) ==
    2 * (Len(d.words) - d.word_index)
       + (IF d.line_buffer = << >> THEN 0 ELSE 1)

\* C15: the word loop ends for every text and width: every iteration lowers
\* LoopVariant; the loop looks at each word at most twice, every line of a
\* forced break holds at least one character, and every character of every
\* word is drawn exactly once.
C15_WordLoopTerminates ==
    /\ []WordLoopBounded
    /\ [][locals.pc = "loop" =>
            \/ locals'.pc = "done"
            \/ /\ LoopVariant(locals') < LoopVariant(locals)
               /\ LoopVariant(locals') >= 0]_vars

\* a width below every character: a word was looked at twice (the line
\* before it was flushed) and another was force-broken, one character a line
C15_Witness ==
    /\ locals.pc = "done"
    /\ \E w \in 1..Len(locals.words) : locals.visits[w] = 2
    /\ Len(locals.forced_lines) >= 2

PositionReturned ==
    /\ args.fn = "calculate_position"
    /\ result # << >>

\* C16: with textW <= imgW and textH <= imgH the position returned keeps the
\* text inside the image: 0 <= x <= imgW - textW and 0 <= y <= imgH - textH.
C16_PositionInsideImage ==
    (/\ PositionReturned
     /\ args.text_w <= args.img_w
     /\ args.text_h <= args.img_h) =>
       /\ 0 <= result[1][1]
       /\ result[1][1] <= args.img_w - args.text_w
       /\ 0 <= result[1][2]
       /\ result[1][2] <= args.img_h - args.text_h

\* C17: every run drawn for an image lies inside [0, imgW] x [0, imgH].
C17_RunsInsideImage ==
    args.fn = "process_single_image" =>
       \A j \in 1..Len(Drawn) :
          /\ 0 <= Drawn[j].x
          /\ Drawn[j].x + Drawn[j].width <= args.img_w
          /\ 0 <= Drawn[j].y
          /\ Drawn[j].y + Drawn[j].height <= args.img_h

\* the table of the anchors, with the margin of 10
TablePosition(position, img_w, img_h, text_w, text_h) ==
    CASE position = "TopLeft" -> <<10, 10>>
      [] position = "TopRight" -> <<img_w - text_w - 10, 10>>
      [] position = "BottomLeft" -> <<10, img_h - text_h - 10>>
      [] position = "BottomRight" ->
            <<img_w - text_w - 10, img_h - text_h - 10>>
      [] position = "Center" ->
            <<(img_w - text_w) \div 2, (img_h - text_h) \div 2>>

\* C18: when textW + 20 <= imgW and textH + 20 <= imgH the position returned
\* is the table value of the anchor.
C18_TableValueWhenUnclamped ==
    (/\ PositionReturned
     /\ args.text_w + 20 <= args.img_w
     /\ args.text_h + 20 <= args.img_h) =>
       result[1] = TablePosition(args.position, args.img_w, args.img_h,
                                 args.text_w, args.text_h)

\* the bottom right anchor with exactly the margin left on both axes
C18_Witness ==
    /\ PositionReturned
    /\ args.impl = "app"
    /\ args.position = "BottomRight"
    /\ args.text_w + 20 = args.img_w
    /\ args.text_h + 20 <= args.img_h
    /\ result = <<<<10, args.img_h - args.text_h - 10>>>>

(***************************************************************************)
(* Properties of the contrast colour                                       *)
(***************************************************************************)
ContrastReturned ==
    /\ args.fn = "contrast_color"
    /\ result # << >>

FillReturned ==
    /\ args.fn = "fill_color"
    /\ result # << >>

\* C19: for a region that can be sampled, the contrast colour is white when
\* L = 0.299 R + 0.587 G + 0.114 B is below 128 and black otherwise, so black
\* when L is exactly 128, in both implementations.
C19_WhiteBelow128ElseBlack ==
    (/\ ContrastReturned
     /\ ~args.region.empty
     /\ ~args.region.stat_raises) =>
       result[1] = IF ExactLuminance(args.region.mean) < 128000 THEN White
                   ELSE Black

\* the region that high-contrast mode samples has no area, or its statistics
\* fail
SamplingFails ==
    \/ /\ args.fn = "contrast_color"
       /\ args.region.empty \/ args.region.stat_raises
    \/ /\ args.fn = "fill_color"
       /\ args.is_high_contrast
       /\ \/ args.stat_raises
          \/ args.text_w = 0
          \/ args.text_h = 0

\* C20: in high-contrast mode, when the region has no area or its statistics
\* fail, the fill colour is black (the call returns, and not with the colour
\* the user selected).
C20_BlackWhenSamplingFails ==
    (result # << >> /\ SamplingFails) => result[1] = Black

(***************************************************************************)
(* Properties of the opacity                                               *)
(***************************************************************************)
OpacityReturned ==
    /\ args.fn = "opacity_value"
    /\ result # << >>

\* C21 as stated: the alpha is round(opacity * 255 / 100), the integer
\* nearest to opacity * 255 / 100 (either neighbour on a tie), within
\* [0, 255]; opacity 0 gives 0 and opacity 100 gives 255.
C21_AlphaIsRounded ==
    OpacityReturned =>
       LET alpha == result[1]
           opacity == args.opacity_percent
       IN  /\ 0 <= alpha /\ alpha <= 255
           /\ 100 * alpha - 255 * opacity <= 50
           /\ 255 * opacity - 100 * alpha <= 50
           /\ opacity = 0 => alpha = 0
           /\ opacity = 100 => alpha = 255

\* C21 as amended: the alpha is opacity * 255 / 100 with its fraction
\* dropped, within [0, 255]; opacity 0 gives 0 and opacity 100 gives 255.
C21_AlphaIsTruncated ==
    OpacityReturned =>
       LET alpha == result[1]
           opacity == args.opacity_percent
       IN  /\ 0 <= alpha /\ alpha <= 255
           /\ 100 * alpha <= 255 * opacity
           /\ 255 * opacity < 100 * (alpha + 1)
           /\ opacity = 0 => alpha = 0
           /\ opacity = 100 => alpha = 255

\* opacity 50 at the start of a batch: 127.5 becomes 127
C21_Witness ==
    /\ OpacityReturned
    /\ args.site = "batch"
    /\ args.opacity_percent = 50
    /\ result = <<127>>

(***************************************************************************)
(* Properties of the dynamic text                                          *)
(***************************************************************************)
DynamicReturned ==
    /\ args.fn = "process_dynamic_text"
    /\ result # << >>

\* a timestamp written YYYY-MM-DD HH:MM:SS
IsTimestamp(string) ==
    /\ string.form = "dash"
    /\ IsTime(string.date)

\* the stored value of a tag is a string that holds a time, in a form the
\* reader of the implementation understands
TagParses(impl, value) ==
    /\ value.kind = "str"
    /\ \/ Parses(value.body, "colon")
       \/ impl = "app" /\ Parses(value.body, "dash")

\* a tag is stored as a string (of any content)
TagStored(value) == value.kind = "str" /\ value.raw # "empty"

\* EXIF cannot be read, no date tag is stored, or the tag that is read is
\* not a time that can be parsed
NoUsableDate(impl, image) ==
    \/ image.exif # "tags"
    \/ ~TagStored(image.original) /\ ~TagStored(image.modified)
    \/ TagStored(image.original) /\ ~TagParses(impl, image.original)
    \/ /\ ~TagStored(image.original)
       /\ TagStored(image.modified)
       /\ ~TagParses(impl, image.modified)

\* C22: every {exif_date} of the text is replaced by a timestamp written
\* YYYY-MM-DD HH:MM:SS or by N/A, by N/A whenever the date tag is absent,
\* EXIF cannot be read or the stored value cannot be parsed; the call
\* returns, and a text without the token is returned unchanged.
C22_ExifDateOrNotAvailable ==
    DynamicReturned =>
       /\ Len(result[1]) = Len(args.text)
       /\ \A k \in 1..Len(args.text) :
             IF args.text[k] = "{exif_date}"
             THEN /\ result[1][k] = NotAvailable \/ IsTimestamp(result[1][k])
                  /\ NoUsableDate(args.impl, args.image)
                        => result[1][k] = NotAvailable
             ELSE result[1][k] = args.text[k]

(***************************************************************************)
(* Properties of the output paths                                          *)
(***************************************************************************)
OutputsSaved ==
    /\ args.fn = "save_outputs"
    /\ locals.pc = "done"

\* the files of the output folder after the batch
OutputFiles == {locals.written[k] : k \in 1..Len(locals.written)}

\* C23: in a batch where every item succeeds, no two inputs are saved to the
\* same output path, also when the extension is replaced, and the output
\* folder holds as many files as the processed count.
C23_OutputPathsDistinct ==
    OutputsSaved =>
       /\ \A j \in 1..Len(locals.written), k \in 1..Len(locals.written) :
             j # k => locals.written[j] # locals.written[k]
       /\ Cardinality(OutputFiles) = result[1]

(***************************************************************************)
(* Properties of the lines of draw_watermark                               *)
(***************************************************************************)
InWordLoop ==
    /\ args.fn \in {"draw_watermark", "process_single_image"}
    /\ locals.pc = "loop"

\* the next word, with the space before it, does not fit on the line so far
WordDoesNotFit(d) ==
    d.current_line_width + SpaceWidth(d.size)
       + SumWidth(WordCharsMetrics(d.words[d.word_index + 1], d.size,
                                   d.word_index))
       > d.max_width_constraint

\* a word is waiting that does not fit on the non-empty line
LineIsFull ==
    /\ InWordLoop
    /\ locals.word_index < Len(locals.words)
    /\ locals.line_buffer # << >>
    /\ WordDoesNotFit(locals)

\* the height of the tallest of some runs
Tallest(items) ==
    CHOOSE h \in {items[k].height : k \in 1..Len(items)} :
       \A k \in 1..Len(items) : items[k].height <= h

\* the runs drawn at the height y
RunsAt(drawn, y) == SelectSeq(drawn, LAMBDA run : run.y = y)

\* the step taken when the line is full: the buffer is drawn at y from
\* x_start on, y moves down by the tallest run of the line, the buffer and
\* the width are reset and the word stays the next one
FullLineIsFlushed ==
    LET buffer == locals.line_buffer
        before == Len(locals.runs)
    IN  /\ Len(locals'.runs) = before + Len(buffer)
        /\ \A k \in 1..Len(buffer) :
              /\ locals'.runs[before + k].y = locals.y
              /\ locals'.runs[before + k].char = buffer[k].char
        /\ locals'.runs[before + 1].x = locals.x_start
        /\ locals'.y = locals.y + Tallest(buffer)
        /\ locals'.line_buffer = << >>
        /\ locals'.current_line_width = 0
        /\ locals'.word_index = locals.word_index

\* a word the loop looked at more than once starts its line
RetriedWordsStartLines ==
    \A w \in 1..Len(locals.words) :
       (locals.visits[w] >= 2 /\ locals.words[w] # << >>) =>
          \E k \in 1..Len(locals.runs) :
             /\ locals.runs[k].char = <<w - 1, 1>>
             /\ locals.runs[k].x = locals.x_start

\* each run continues the line of the run before it, or starts a line at or
\* below the bottom of that line
LinesDoNotOverlap ==
    \A k \in 1..(Len(locals.runs) - 1) :
       LET a == locals.runs[k]
           b == locals.runs[k + 1]
       IN  \/ b.y = a.y /\ b.x = a.x + a.width
           \/ b.y >= a.y + Tallest(RunsAt(locals.runs, a.y))

\* draw_watermark returned after its word loop
WordLoopDone == DrawReturned /\ locals.pc = "done"

C24_LinesInvariant ==
    /\ (InWordLoop \/ WordLoopDone) => LinesDoNotOverlap
    /\ WordLoopDone => RetriedWordsStartLines

\* C24: in draw_watermark, when a word does not fit on a non-empty line the
\* buffered line is drawn at the current y, y advances by exactly the
\* height of the tallest run of that line, the buffer and the width are
\* reset and the same word is tried again at x_start; y never decreases, and
\* every line, buffered or force-broken, starts at or below the y of the
\* line before it plus the height of that line's tallest character.
C24_LinesAdvanceWithoutOverlap ==
    /\ []C24_LinesInvariant
    /\ [][(LineIsFull => FullLineIsFlushed)
          /\ (InWordLoop => locals'.y >= locals.y)]_vars

\* a full line was flushed and a word was broken by force: three lines
C24_Witness ==
    /\ WordLoopDone
    /\ \E w \in 1..Len(locals.words) : locals.visits[w] >= 2
    /\ locals.forced_lines # << >>
    /\ Cardinality({locals.runs[k].y : k \in 1..Len(locals.runs)}) >= 3

(***************************************************************************)
(* Properties of the completion report                                     *)
(***************************************************************************)
\* run r listed the folder and attempted every image of it
AllAttempted(r) ==
    /\ ~worker[r].setup_failed
    /\ worker[r].pc = "done"
    /\ folder_count > 0
    /\ worker[r].processed + worker[r].skipped = folder_count

\* the label or the dialog of a report says the run was stopped
ReportedStopped(report) == report[1] = "stopped" \/ report[2] = "stopped"

\* C25: a run of the standalone app in which all n images were attempted
\* (processed + skipped = n) is never reported as stopped by
\* _handle_completion, however request_stop_processing interleaves with the
\* last item of the worker and with the handling of the finished message.
C25_CompleteRunNotReportedStopped ==
    sys = "app" =>
       \A r \in Runs :
          AllAttempted(r) =>
             \A k \in 1..Len(reports[r]) : ~ReportedStopped(reports[r][k])

(***************************************************************************)
(* Properties of the controls of the suite                                 *)
(***************************************************************************)
\* C26: in the suite, while a watermark batch worker is running
\* (is_processing is true) the start button stays disabled and the stop
\* button stays enabled: no enable_controls message of another tool
\* re-enables the start button or disables the stop button of the batch.
C26_ControlsHeldWhileProcessing ==
    (sys = "suite" /\ is_processing) =>
       /\ process_btn = "disabled"
       /\ stop_btn = "normal"

(***************************************************************************)
(* Properties of the completion of a run of the standalone app             *)
(***************************************************************************)
\* the messages of run r still in the queue; the runs of the app do not
\* overlap, so the queue holds the messages of the run of processing_thread
QueueHoldsNoMessage == processing_queue = << >>

\* the state _handle_completion leaves
ControlsRestored ==
    /\ process_button = "normal"
    /\ stop_button = "disabled"
    /\ processing_thread = 0
    /\ ~stop_requested
    /\ polls = 0
    /\ QueueHoldsNoMessage

\* _handle_completion has been invoked for run r
CompletionHandled(r) == Len(reports[r]) = 1

\* C27: under fair scheduling of the worker and of the 100 ms poll, every
\* run launched by start_processing_thread leads to exactly one invocation
\* of _handle_completion, whatever its outcome; that invocation leaves the
\* start button enabled, the stop button disabled, processing_thread None,
\* stop_requested false, the poll chain stopped and no message of the run
\* in the queue.
C27_EveryRunCompletesOnce ==
    /\ [](\A r \in Runs : Len(reports[r]) <= 1)
    /\ [][\A r \in Runs :
            reports'[r] # reports[r] => (CompletionHandled(r) /\ ControlsRestored)']_vars
    /\ \A r \in Runs : (Started(r) ~> CompletionHandled(r))

\* a stopped run and a run with a failed setup have both been handled
C27_Witness ==
    /\ sys = "app"
    /\ \A r \in Runs : CompletionHandled(r)
    /\ \E r \in Runs : worker[r].stop_during
    /\ \E r \in Runs : worker[r].setup_failed
    /\ ControlsRestored

(***************************************************************************)
(* Properties of the counts of the final summary                           *)
(***************************************************************************)
\* n, the number of images of the batch
BatchSize == IF sys = "app" THEN folder_count ELSE image_files

\* the loop of run r did not reach the end of the list: it was left at the
\* stop check, or the fatal error came before it
EndedEarly(r) ==
    \/ CutShort(r)
    \/ worker[r].setup_failed /\ BatchSize > 0

\* the counts of the summary m of run r
SummaryCounts(r, m) ==
    LET started == Len(worker[r].opened)
        failed == Len(worker[r].failures)
    IN  /\ m.processed + m.skipped = started
        /\ started = Len(ProgressEvents(r))
        /\ started <= BatchSize
        /\ (m.processed + m.skipped = BatchSize) <=> ~EndedEarly(r)
        /\ m.skipped = failed
        /\ m.processed = started - failed

\* C28: when the final summary of a run over n items is emitted,
\* processed + skipped is the number of items started, which is the number
\* of progress events and at most n; it is n exactly when the loop was not
\* cut short by a stop or a fatal error; every started item is counted in
\* exactly one of processed and skipped.
C28_SummaryCountsStartedItems ==
    \A r \in Runs :
       \A k \in 1..Len(SummaryEvents(r)) :
          SummaryCounts(r, SummaryEvents(r)[k])

\* a summary of a run that was cut short after a failed item
C28_Witness ==
    \E r \in Runs :
       /\ SummaryEvents(r) # << >>
       /\ CutShort(r)
       /\ worker[r].failures # << >>

(***************************************************************************)
(* Properties of the ConfigManager                                         *)
(***************************************************************************)
\* the last call was reset_to_defaults with this argument
WasReset(section) ==
    /\ args.fn = "config_manager"
    /\ locals.last = [op |-> "reset_to_defaults", section |-> section]

\* C29: after any sequence of load_settings, set and update_section,
\* reset_to_defaults(section) makes get_section(section) the built-in
\* defaults of the section, reset_to_defaults() does so for every section,
\* and default_config is never changed.
C29_ResetRestoresBuiltinDefaults ==
    args.fn = "config_manager" =>
       /\ \A s \in Sections :
             (WasReset(s) \/ WasReset("None"))
                => GetSection(locals.m, s) = BuiltinDefaults[s]
       /\ locals.m.default_config = BuiltinDefaults

(***************************************************************************)
(* Properties of the sessions                                              *)
(***************************************************************************)
\* WatermarkTool.load_settings has just run in the construction of the suite
ToolHasLoaded ==
    /\ args.fn = "session"
    /\ locals.pc = "tools"

\* C30: the watermark settings a session saved (update_section('watermark',
\* ...) and save_settings) are the values WatermarkTool loads at the next
\* start: when WatermarkTool.load_settings runs in the construction of
\* PicToolSuite, the ConfigManager has already loaded the persisted file.
C30_SavedSettingsAreLoaded ==
    ToolHasLoaded =>
       /\ locals.m.loaded
       /\ locals.saved.here => locals.tool = locals.saved.items

====
